---------------------------- MODULE Spec2Model ----------------------------
(***************************************************************************)
(* A model of the movies-catalog backend (src/app.py) over the schema of   *)
(* src/setup_bd.py: the process-wide session map active_tokens, the        *)
(* tables users, movies, movie_genres and ratings, and one action per HTTP *)
(* handler.  Every action is a whole request: the decorators               *)
(* (require_auth, require_admin), the handler body and its commit.  The    *)
(* last section takes the session requests apart into the steps that the   *)
(* threads of the server (app.run: one thread per request) interleave.     *)
(*                                                                         *)
(* Text is a sequence of one-character strings, so that strip(), lower()   *)
(* and the regular expressions are computed, not assumed.  A rating is an  *)
(* integer number of half points (16 is 8.0): the halves are exact in the  *)
(* REAL column.  The database is assumed reachable: the handlers' generic  *)
(* "except Exception" branches (500) are not taken for connection errors.  *)
(* generate_token() is modelled as always returning a token that was never *)
(* returned before (secrets.token_urlsafe(32)).                            *)
(***************************************************************************)
EXTENDS Integers, Sequences, FiniteSets, TLC

VARIABLES
    users,          \* table users: a set of rows
    userSeq,        \* last value of the sequence users_id_seq
    active_tokens,  \* app.py:27, token string -> [id, role]
    tokSeq,         \* number of tokens generate_token() has returned
    movies,         \* table movies: id -> row
    movieSeq,       \* last value of the identity sequence of movies.id
    movie_genres,   \* table movie_genres: a set of <<movie_id, genre_id>>
    ratings,        \* table ratings: a set of rows
    ratingSeq,      \* last value of the identity sequence of ratings.id
    resp,           \* the last request and its response
    issued,         \* history: token -> the user of the login response
    revoked,        \* history: tokens a logout request has presented
    lastRated,      \* history: <<user, movie>> -> last value written with success
    threads         \* the requests the server's threads are in the middle of

vars == <<users, userSeq, active_tokens, tokSeq, movies, movieSeq,
          movie_genres, ratings, ratingSeq, resp, issued, revoked, lastRated, threads>>

dbVars == <<users, userSeq, movies, movieSeq, movie_genres, ratings, ratingSeq>>

-----------------------------------------------------------------------------
(* Bounds *)

MaxTokens == 2
MaxUserSeq == 4
MaxMovieSeq == 3
MaxRatingSeq == 2
CatalogSize == 23
MaxTailLen == 3

-----------------------------------------------------------------------------
(* Text *)

LowerLetters ==
    {"a", "b", "c", "d", "e", "g", "h", "i", "l", "m", "n", "o", "p", "r", "s", "t", "u", "w", "x"}
UpperLetters == {"A", "B", "C", "D", "G", "H", "N", "P", "U"}
Digits == {"1", "2", "3"}
Whitespace == {" "}

\* str.lower() on one character
LowerChar(c) ==
    CASE c = "A" -> "a"
      [] c = "B" -> "b"
      [] c = "C" -> "c"
      [] c = "D" -> "d"
      [] c = "G" -> "g"
      [] c = "H" -> "h"
      [] c = "N" -> "n"
      [] c = "P" -> "p"
      [] c = "U" -> "u"
      [] OTHER -> c

\* str.lower()
Lower(s) == [i \in 1..Len(s) |-> LowerChar(s[i])]

RECURSIVE LStrip(_)
LStrip(s) == IF s # <<>> /\ Head(s) \in Whitespace THEN LStrip(Tail(s)) ELSE s

RECURSIVE RStrip(_)
RStrip(s) ==
    IF s # <<>> /\ s[Len(s)] \in Whitespace THEN RStrip(SubSeq(s, 1, Len(s) - 1)) ELSE s

\* str.strip()
Strip(s) == RStrip(LStrip(s))

AllIn(s, class) == \A i \in 1..Len(s) : s[i] \in class

\* re.match(r'^[a-zA-Z0-9._%+-]+@[a-zA-Z0-9.-]+\.[a-zA-Z]{2,}$', email)
validate_email(email) ==
    \E at \in 2..Len(email), dot \in 3..Len(email) :
        /\ email[at] = "@"
        /\ email[dot] = "."
        /\ at + 1 < dot
        /\ dot + 2 <= Len(email)
        /\ AllIn(SubSeq(email, 1, at - 1),
                 LowerLetters \cup UpperLetters \cup Digits \cup {".", "_", "%", "+", "-"})
        /\ AllIn(SubSeq(email, at + 1, dot - 1),
                 LowerLetters \cup UpperLetters \cup Digits \cup {".", "-"})
        /\ AllIn(SubSeq(email, dot + 1, Len(email)), LowerLetters \cup UpperLetters)

SpecialChars == {"!", "@", "#", "$", "%", "^", "&", "*", "(", ")", ",", ".", "?", "\"", ":", "{", "}", "|", "<", ">"}

HasIn(s, class) == \E i \in 1..Len(s) : s[i] \in class

MinPasswordLen == 8

\* validate_password with the upper-case test ahead of the lower-case test
validate_password_UpperFirst(password) ==
    IF Len(password) < MinPasswordLen
        THEN <<FALSE, "Password must be at least 8 characters long">>
    ELSE IF ~HasIn(password, UpperLetters)
        THEN <<FALSE, "Password must contain at least one uppercase letter">>
    ELSE IF ~HasIn(password, LowerLetters)
        THEN <<FALSE, "Password must contain at least one lowercase letter">>
    ELSE IF ~HasIn(password, SpecialChars)
        THEN <<FALSE, "Password must contain at least one special character">>
    ELSE <<TRUE, "">>

\* validate_password: <<is_valid, error_msg>>
validate_password(password) ==
    IF Len(password) < MinPasswordLen
        THEN <<FALSE, "Password must be at least 8 characters long">>
    ELSE IF ~HasIn(password, LowerLetters)
        THEN <<FALSE, "Password must contain at least one lowercase letter">>
    ELSE IF ~HasIn(password, UpperLetters)
        THEN <<FALSE, "Password must contain at least one uppercase letter">>
    ELSE IF ~HasIn(password, SpecialChars)
        THEN <<FALSE, "Password must contain at least one special character">>
    ELSE <<TRUE, "">>

\* hashlib.sha256(password.encode()).hexdigest(): a digest that is a function
\* of the password alone (no salt) and differs for different passwords
hash_password(password) == <<"sha256">> \o password

-----------------------------------------------------------------------------
(* Requests *)

\* A JSON body: a function from the keys it holds to their values
Has(data, k) == k \in DOMAIN data

\* The value of an Authorization header: `bearer` times the prefix "Bearer "
\* and then `tok`.  NoHeader is the absent (or empty) header.
NoHeader == [bearer |-> 0, tok |-> ""]

\* generate_token(): the n-th token returned
generate_token(n) == [bearer |-> 0, tok |-> <<"t1", "t2", "t3", "t4", "t5", "t6">>[n]]

\* token[7:] when token.startswith('Bearer ')
StripBearer(token) ==
    IF token.bearer > 0 THEN [token EXCEPT !.bearer = @ - 1] ELSE token

NoUser == [id |-> 0, role |-> "none"]

\* The decorator require_auth: the response it gives itself (401), or the
\* user_info it puts on the request before calling the handler (status 0)
require_auth(token) ==
    IF token = NoHeader
        THEN [status |-> 401, info |-> NoUser]
    ELSE IF StripBearer(token) \notin DOMAIN active_tokens
        THEN [status |-> 401, info |-> NoUser]
    ELSE [status |-> 0, info |-> active_tokens[StripBearer(token)]]

\* require_admin without its role check
require_admin_Open(role) == 0

\* The decorator require_admin, which runs after require_auth
require_admin(role) == IF role # "admin" THEN 403 ELSE 0

\* The headers a client can present: nothing, a token a login has returned
\* (bare, or behind one "Bearer " prefix, or behind two), or a string no login
\* returned
BearerHeaders == {NoHeader} \cup {[bearer |-> 1, tok |-> k.tok] : k \in DOMAIN issued}

Headers ==
    {NoHeader, [bearer |-> 1, tok |-> "forged"]} \cup
    {[bearer |-> b, tok |-> k.tok] : b \in {0, 1}, k \in DOMAIN issued} \cup
    {[bearer |-> 2, tok |-> k.tok] : k \in DOMAIN issued \cap {generate_token(1)}}

-----------------------------------------------------------------------------
(* Tables *)

T_admin == <<"a", "d", "m", "i", "n">>
T_admin_password == <<"a", "d", "m", "i", "n", "1", "2", "3">>

T_al == <<"a", "l">>
T_al_padded == <<" ", "a", "l", " ">>
T_bo == <<"b", "o">>
T_cy == <<"c", "y">>
T_mail_a == <<"a", "@", "b", ".", "c", "c">>
T_mail_c == <<"c", "@", "b", ".", "c", "c">>
T_mail_d == <<"d", "@", "b", ".", "c", "c">>
T_mail_bad == <<"a", "@", "b">>
T_GoodPass == <<"G", "o", "o", "d", "P", "a", "s", "s", "1", "!">>
T_empty == <<>>

\* create_admin_user: the row the setup script seeds
AdminRow ==
    [id |-> 1, username |-> T_admin, email |-> <<"a", "d", "m", "i", "n", "@", "e", "x", "a", "m", "p", "l", "e", ".", "c", "o", "m">>,
     password_hash |-> hash_password(T_admin_password), role |-> "admin",
     profile_picture_path |-> T_empty]

\* Rows of the tables genres, movies and movie_genres as the loader
\* (load_movies_and_ratings in setup_bd.py) leaves them.  The API never writes genres.
T_Drama == <<"D", "r", "a", "m", "a">>
T_Comedy == <<"C", "o", "m", "e", "d", "y">>

Genres == [g \in {1, 2} |-> IF g = 1 THEN T_Drama ELSE T_Comedy]

NullDate == <<>>
T_Up == <<"U", "p">>
T_Heat == <<"H", "e", "a", "t">>
T_New == <<"N", "e", "w">>

\* The columns of movies the model keeps.  The other columns of the schema
\* (imdb_id, overview, adult, budget, ...) are written and read like these.
MovieRow(title, popularity, release_date) ==
    [title |-> title, original_title |-> title, popularity |-> popularity,
     vote_average |-> 0, release_date |-> release_date, raw_genres |-> "[]"]

LoadedMovies ==
    [m \in {1, 2} |->
        IF m = 1 THEN MovieRow(T_Up, 9, <<2009>>) ELSE MovieRow(T_Heat, 5, <<1995>>)]

LoadedMovieGenres == {<<1, 1>>, <<1, 2>>, <<2, 1>>}

\* A user registered before the server started (the session map is lost on
\* restart, the tables are not)
EarlierUserRow ==
    [id |-> 2, username |-> T_bo, email |-> T_mail_c,
     password_hash |-> hash_password(T_GoodPass), role |-> "user",
     profile_picture_path |-> T_empty]

EmptyMap == [k \in {} |-> NoUser]

\* A request body without keys
EmptyBody == [k \in {} |-> 0]

\* The threads that serve requests at the same time
ThreadIds == {1, 2}

\* A thread that serves no request.  pc is the thread's place in its request,
\* info the user_info require_auth has read, user the row login has selected,
\* before the session map when the requests were received (history)
IdleThread ==
    [pc |-> "idle", op |-> "none", header |-> NoHeader, data |-> EmptyBody,
     info |-> NoUser, user |-> NoUser, status |-> 0, token |-> NoHeader,
     before |-> EmptyMap]

Init ==
    /\ users = {AdminRow, EarlierUserRow}
    /\ userSeq = 2
    /\ active_tokens = EmptyMap
    /\ tokSeq = 0
    /\ movies = LoadedMovies
    /\ movieSeq = 2
    /\ movie_genres = LoadedMovieGenres
    /\ ratings = {}
    /\ ratingSeq = 0
    /\ resp = [op |-> "none", status |-> 0]
    /\ issued = EmptyMap
    /\ revoked = {}
    /\ lastRated = [k \in {} |-> 0]
    /\ threads = [i \in ThreadIds |-> IdleThread]

\* f with key k set to v (a dict assignment, or an insert into a keyed table)
Put(f, k, v) == [x \in DOMAIN f \cup {k} |-> IF x = k THEN v ELSE f[x]]

\* f without key k (del f[k])
Del(f, k) == [x \in DOMAIN f \ {k} |-> f[x]]

-----------------------------------------------------------------------------
(* POST /api/auth/register *)

RequiredFields == {"username", "email", "password"}

\* InsertUser with the unique constraint on email dropped
InsertUser_NameOnly(id, username, email, password_hash) ==
    IF \E u \in users : u.username = username
        THEN {}
        ELSE {[id |-> id, username |-> username, email |-> email,
               password_hash |-> password_hash, role |-> "user",
               profile_picture_path |-> T_empty]}

\* INSERT INTO users ... RETURNING id, under UNIQUE(username) and UNIQUE(email):
\* the row to add, or none on a unique violation
InsertUser(id, username, email, password_hash) ==
    IF \E u \in users : u.username = username \/ u.email = email
        THEN {}
        ELSE {[id |-> id, username |-> username, email |-> email,
               password_hash |-> password_hash, role |-> "user",
               profile_picture_path |-> T_empty]}

register_ai(data) ==
    IF ~(\A k \in RequiredFields : Has(data, k) /\ data[k] # T_empty)
    THEN /\ resp' = [op |-> "register", data |-> data, status |-> 400, user_id |-> 0,
                       statements |-> 0]
         /\ UNCHANGED <<users, userSeq>>
    ELSE
        LET username == Strip(data["username"])
            email == Lower(Strip(data["email"]))
            password == data["password"]
        IN  IF ~validate_email(email) \/ ~validate_password(password)[1]
            THEN /\ resp' = [op |-> "register", data |-> data, status |-> 400, user_id |-> 0,
                       statements |-> 0]
                 /\ UNCHANGED <<users, userSeq>>
            ELSE
                LET row == InsertUser(userSeq + 1, username, email, hash_password(password))
                IN  /\ userSeq < MaxUserSeq
                    \* the sequence is advanced also when the insert fails
                    /\ userSeq' = userSeq + 1
                    /\ users' = users \cup row
                    /\ resp' = IF row = {}
                                 THEN [op |-> "register", data |-> data, status |-> 409,
                                       user_id |-> 0, statements |-> 1]
                                 ELSE [op |-> "register", data |-> data, status |-> 201,
                                       user_id |-> userSeq + 1, statements |-> 1]

DoRegister(bodies) ==
    \E data \in bodies :
        /\ register_ai(data)
        /\ UNCHANGED <<active_tokens, tokSeq, movies, movieSeq, movie_genres,
                       ratings, ratingSeq, issued, revoked, lastRated, threads>>

-----------------------------------------------------------------------------
(* POST /api/auth/login *)

\* FindUser that does not compare the password hash
FindUser_ByName(username, password_hash) == {u \in users : u.username = username}

\* SELECT id, username, email, role FROM users WHERE username = %s AND password_hash = %s
FindUser(username, password_hash) ==
    {u \in users : u.username = username /\ u.password_hash = password_hash}

\* StoreToken that ends the user's earlier sessions
StoreToken_SingleSession(token, user) ==
    Put([k \in {x \in DOMAIN active_tokens : active_tokens[x].id # user.id} |-> active_tokens[k]],
        token, [id |-> user.id, role |-> user.role])

\* A store that writes back the map as it was when the requests were received,
\* with the new token added
StoreToken_Snapshot(token, user) ==
    Put(threads[1].before, token, [id |-> user.id, role |-> user.role])

\* active_tokens[token] = {'id': user['id'], 'role': user['role']}
StoreToken(token, user) == Put(active_tokens, token, [id |-> user.id, role |-> user.role])

login(data) ==
    IF ~(Has(data, "username") /\ Has(data, "password"))
    THEN /\ resp' = [op |-> "login", data |-> data, status |-> 400, token |-> NoHeader, user |-> NoUser]
         /\ UNCHANGED <<active_tokens, tokSeq, issued>>
    ELSE
        LET found == FindUser(data["username"], hash_password(data["password"]))
        IN  IF found = {}
            THEN /\ resp' = [op |-> "login", data |-> data, status |-> 401, token |-> NoHeader,
                             user |-> NoUser]
                 /\ UNCHANGED <<active_tokens, tokSeq, issued>>
            ELSE
                LET user == CHOOSE u \in found : TRUE
                    token == generate_token(tokSeq + 1)
                IN  /\ tokSeq < MaxTokens
                    /\ tokSeq' = tokSeq + 1
                    /\ active_tokens' = StoreToken(token, user)
                    /\ issued' = Put(issued, token, [id |-> user.id, role |-> user.role])
                    /\ resp' = [op |-> "login", data |-> data, status |-> 200, token |-> token,
                                user |-> [id |-> user.id, role |-> user.role]]

DoLogin(bodies) ==
    \E data \in bodies :
        /\ login(data)
        /\ UNCHANGED <<dbVars, revoked, lastRated, threads>>

-----------------------------------------------------------------------------
(* POST /api/auth/logout *)

\* RemoveToken that forgets the del
RemoveToken_Kept(token) == active_tokens

\* if token in active_tokens: del active_tokens[token]
RemoveToken(token) ==
    IF token \in DOMAIN active_tokens THEN Del(active_tokens, token) ELSE active_tokens

logout(header) ==
    LET auth == require_auth(header)
    IN  IF auth.status # 0
        THEN /\ resp' = [op |-> "logout", status |-> auth.status, header |-> header,
                         user_id |-> 0, user_role |-> "none"]
             /\ UNCHANGED active_tokens
        ELSE /\ active_tokens' = RemoveToken(StripBearer(header))
             /\ resp' = [op |-> "logout", status |-> 200, header |-> header,
                         user_id |-> auth.info.id, user_role |-> auth.info.role]

DoLogout(headers) ==
    \E header \in headers :
        /\ logout(header)
        /\ revoked' = revoked \cup ({StripBearer(header)} \cap DOMAIN issued)
        /\ UNCHANGED <<dbVars, tokSeq, issued, lastRated, threads>>

-----------------------------------------------------------------------------
(* GET /api/profile *)

\* The user row of the response; the list recent_ratings is left out
get_profile(header) ==
    LET auth == require_auth(header)
        rows == {u \in users : u.id = auth.info.id}
    IN  IF auth.status # 0
        THEN resp' = [op |-> "get_profile", status |-> auth.status, header |-> header,
                      user_id |-> 0, user_role |-> "none", user |-> {}]
        ELSE resp' = [op |-> "get_profile", status |-> IF rows = {} THEN 404 ELSE 200,
                      header |-> header, user_id |-> auth.info.id,
                      user_role |-> auth.info.role, user |-> rows]

DoGetProfile(headers) ==
    \E header \in headers :
        /\ get_profile(header)
        /\ UNCHANGED <<dbVars, active_tokens, tokSeq, issued, revoked, lastRated, threads>>

-----------------------------------------------------------------------------
(* Ratings *)

\* n rating points in the unit of the model, half points
Pts(n) == n + n

\* RatingInRange without the lower bound
RatingInRange_NoLower(rating) == rating <= Pts(10)

\* 0 <= rating <= 10
RatingInRange(rating) == Pts(0) <= rating /\ rating <= Pts(10)

\* UpsertRating as ON CONFLICT DO NOTHING
UpsertRating_KeepOld(rows, id, user_id, movie_id, rating) ==
    IF \E r \in rows : r.user_id = user_id /\ r.movie_id = movie_id
        THEN rows
        ELSE rows \cup {[id |-> id, user_id |-> user_id, movie_id |-> movie_id,
                         rating |-> rating]}

\* INSERT INTO ratings ... ON CONFLICT (user_id, movie_id) DO UPDATE SET rating = %s:
\* the table after the statement (the column has no foreign key to movies)
UpsertRating(rows, id, user_id, movie_id, rating) ==
    IF \E r \in rows : r.user_id = user_id /\ r.movie_id = movie_id
        THEN {IF r.user_id = user_id /\ r.movie_id = movie_id
                 THEN [r EXCEPT !.rating = rating] ELSE r : r \in rows}
        ELSE rows \cup {[id |-> id, user_id |-> user_id, movie_id |-> movie_id,
                         rating |-> rating]}

(* POST /api/movie/<movie_id>/rating *)
submit_rating(header, movie_id, data) ==
    LET auth == require_auth(header)
        base == [op |-> "submit_rating", header |-> header, user_id |-> auth.info.id,
                 user_role |-> auth.info.role, movie_id |-> movie_id, data |-> data]
    IN  IF auth.status # 0
        THEN /\ resp' = base @@ [status |-> auth.status, statements |-> 0]
             /\ UNCHANGED <<ratings, ratingSeq, lastRated>>
        ELSE IF ~Has(data, "rating")
        THEN /\ resp' = base @@ [status |-> 400, statements |-> 0]
             /\ UNCHANGED <<ratings, ratingSeq, lastRated>>
        ELSE IF ~RatingInRange(data["rating"])
        THEN /\ resp' = base @@ [status |-> 400, statements |-> 0]
             /\ UNCHANGED <<ratings, ratingSeq, lastRated>>
        ELSE
            LET rows == UpsertRating(ratings, ratingSeq + 1, auth.info.id, movie_id,
                                     data["rating"])
            IN  /\ ratingSeq < MaxRatingSeq
                \* the identity sequence is advanced also on conflict
                /\ ratingSeq' = ratingSeq + 1
                /\ ratings' = rows
                /\ lastRated' = Put(lastRated, <<auth.info.id, movie_id>>, data["rating"])
                /\ resp' = base @@ [status |-> 201, statements |-> 1,
                                    \* RETURNING id of the upsert
                                    rating_id |-> (CHOOSE r \in rows :
                                                      /\ r.user_id = auth.info.id
                                                      /\ r.movie_id = movie_id).id,
                                    rating |-> data["rating"]]

DoSubmitRating(headers, ids, bodies) ==
    \E header \in headers, movie_id \in ids, data \in bodies :
        /\ submit_rating(header, movie_id, data)
        /\ UNCHANGED <<users, userSeq, movies, movieSeq, movie_genres,
                       active_tokens, tokSeq, issued, revoked, threads>>

\* DeleteRatingRows without the condition on user_id
DeleteRatingRows_AllUsers(user_id, movie_id) == {r \in ratings : r.movie_id # movie_id}

\* DELETE FROM ratings WHERE user_id = %s AND movie_id = %s
DeleteRatingRows(user_id, movie_id) ==
    {r \in ratings : ~(r.user_id = user_id /\ r.movie_id = movie_id)}

(* DELETE /api/movie/<movie_id>/rating *)
delete_rating(header, movie_id) ==
    LET auth == require_auth(header)
        base == [op |-> "delete_rating", header |-> header, user_id |-> auth.info.id,
                 user_role |-> auth.info.role, movie_id |-> movie_id]
        rows == DeleteRatingRows(auth.info.id, movie_id)
    IN  IF auth.status # 0
        THEN /\ resp' = base @@ [status |-> auth.status]
             /\ UNCHANGED ratings
        ELSE /\ ratings' = rows
             /\ resp' = base @@ [status |-> IF rows = ratings THEN 404 ELSE 200]

DoDeleteRating(headers, ids) ==
    \E header \in headers, movie_id \in ids :
        /\ delete_rating(header, movie_id)
        /\ UNCHANGED <<users, userSeq, movies, movieSeq, movie_genres, ratingSeq,
                       active_tokens, tokSeq, issued, revoked, lastRated, threads>>

-----------------------------------------------------------------------------
(* GET /api/movies/<movie_id>/ratings *)

\* ROUND(rating) on the REAL column (round(double precision): a tie goes to
\* the even integer), in whole points
Round(rating) ==
    IF rating % 2 = 0 THEN rating \div 2
    ELSE LET below == (rating - 1) \div 2
         IN  IF below % 2 = 0 THEN below ELSE below + 1

RECURSIVE SumRatings(_)
SumRatings(rows) ==
    IF rows = {} THEN 0
    ELSE LET r == CHOOSE x \in rows : TRUE IN r.rating + SumRatings(rows \ {r})

\* AVG(rating): <<>> is NULL, <<sum, n>> is the quotient sum / n (in half points)
Avg(rows) == IF rows = {} THEN <<>> ELSE <<SumRatings(rows), Cardinality(rows)>>

Buckets == 1..5

\* ORDER BY timestamp DESC: timestamp is set when the row is inserted and never
\* afterwards, so the order is that of the ids, newest first
RECURSIVE NewestFirst(_)
NewestFirst(rows) ==
    IF rows = {} THEN <<>>
    ELSE LET r == CHOOSE x \in rows : \A y \in rows : y.id <= x.id
         IN  <<r>> \o NewestFirst(rows \ {r})

\* Slice that starts one row late
Slice_OneLate(list, limit, offset) ==
    SubSeq(list, offset + 2, IF offset + 1 + limit < Len(list) THEN offset + 1 + limit ELSE Len(list))

\* LIMIT limit OFFSET offset of a result list
Slice(list, limit, offset) ==
    SubSeq(list, offset + 1, IF offset + limit < Len(list) THEN offset + limit ELSE Len(list))

get_movie_ratings_ai(movie_id, page, limit) ==
    LET offset == (page - 1) * limit
        rows == {r \in ratings : r.movie_id = movie_id}
        base == [op |-> "get_movie_ratings", movie_id |-> movie_id]
    IN  IF Avg(rows) = <<>>
        THEN resp' = base @@ [status |-> 200, average_rating |-> <<>>,
                              rating_counts |-> [k \in Buckets |-> 0], ratings |-> <<>>]
        ELSE IF limit < 0 \/ offset < 0
        \* the database refuses a negative LIMIT or OFFSET
        THEN resp' = base @@ [status |-> 500, average_rating |-> <<>>,
                              rating_counts |-> [k \in Buckets |-> 0], ratings |-> <<>>]
        ELSE resp' = base @@ [status |-> 200, average_rating |-> Avg(rows),
                              \* SUM(CASE WHEN ROUND(rating) = k THEN 1 ELSE 0 END)
                              rating_counts |->
                                  [k \in Buckets |->
                                      Cardinality({r \in rows : Round(r.rating) = k})],
                              ratings |-> [i \in DOMAIN Slice(NewestFirst(rows), limit, offset) |->
                                  [user_id |-> Slice(NewestFirst(rows), limit, offset)[i].user_id,
                                   rating |-> Slice(NewestFirst(rows), limit, offset)[i].rating]]]

DoGetMovieRatings(ids, pages, limits) ==
    \E movie_id \in ids, page \in pages, limit \in limits :
        /\ get_movie_ratings_ai(movie_id, page, limit)
        /\ UNCHANGED <<dbVars, active_tokens, tokSeq, issued, revoked, lastRated, threads>>

-----------------------------------------------------------------------------
(* Admin: movies *)

\* Nothing in app.py or in setup_bd.py's loader writes movie_companies, whose
\* movie_id references movies(id)
MovieCompanies == {}

(* POST /api/insert/movie *)
insert_movie(header, data) ==
    LET auth == require_auth(header)
        base == [op |-> "insert_movie", header |-> header, user_id |-> auth.info.id,
                 user_role |-> auth.info.role, data |-> data]
    IN  IF auth.status # 0
        THEN /\ resp' = base @@ [status |-> auth.status, movie_id |-> 0, statements |-> 0]
             /\ UNCHANGED <<movies, movieSeq>>
        ELSE IF require_admin(auth.info.role) # 0
        THEN /\ resp' = base @@ [status |-> require_admin(auth.info.role), movie_id |-> 0,
                                 statements |-> 0]
             /\ UNCHANGED <<movies, movieSeq>>
        ELSE IF ~Has(data, "title")
        THEN /\ resp' = base @@ [status |-> 400, movie_id |-> 0, statements |-> 0]
             /\ UNCHANGED <<movies, movieSeq>>
        ELSE
            /\ movieSeq < MaxMovieSeq
            /\ movieSeq' = movieSeq + 1
            /\ movies' = Put(movies, movieSeq + 1,
                   [title |-> data["title"],
                    original_title |-> IF Has(data, "original_title")
                                         THEN data["original_title"] ELSE data["title"],
                    popularity |-> IF Has(data, "popularity") THEN data["popularity"] ELSE 0,
                    vote_average |-> IF Has(data, "vote_average") THEN data["vote_average"] ELSE 0,
                    release_date |-> IF Has(data, "release_date") THEN data["release_date"]
                                                                  ELSE NullDate,
                    raw_genres |-> IF Has(data, "raw_genres") THEN data["raw_genres"] ELSE "[]"])
            /\ resp' = base @@ [status |-> 201, movie_id |-> movieSeq + 1, statements |-> 1]

DoInsertMovie(headers, bodies) ==
    \E header \in headers, data \in bodies :
        /\ insert_movie(header, data)
        /\ UNCHANGED <<users, userSeq, movie_genres, ratings, ratingSeq,
                       active_tokens, tokSeq, issued, revoked, lastRated, threads>>

allowed_fields ==
    {"imdb_id", "title", "original_title", "overview", "release_date", "adult",
     "budget", "revenue", "runtime", "popularity", "vote_average", "vote_count",
     "original_language", "status", "tagline", "homepage", "poster_path"}

\* An UPDATE that sets every key of data that names a column
UpdateMovieRow_AnyKey(row, data) ==
    [c \in DOMAIN row |-> IF Has(data, c) THEN data[c] ELSE row[c]]

\* UPDATE movies SET <the allowed keys of data> WHERE id = movie_id
UpdateMovieRow(row, data) ==
    [c \in DOMAIN row |-> IF c \in allowed_fields /\ Has(data, c) THEN data[c] ELSE row[c]]

(* PUT /api/admin/movies/<movie_id> *)
update_movie(header, movie_id, data) ==
    LET auth == require_auth(header)
        base == [op |-> "update_movie", header |-> header, user_id |-> auth.info.id,
                 user_role |-> auth.info.role, movie_id |-> movie_id, data |-> data]
        updates == DOMAIN data \cap allowed_fields
    IN  IF auth.status # 0
        THEN /\ resp' = base @@ [status |-> auth.status, updated_fields |-> {}, statements |-> 0]
             /\ UNCHANGED movies
        ELSE IF require_admin(auth.info.role) # 0
        THEN /\ resp' = base @@ [status |-> require_admin(auth.info.role), updated_fields |-> {},
                                 statements |-> 0]
             /\ UNCHANGED movies
        ELSE IF DOMAIN data = {} \/ updates = {}
        THEN /\ resp' = base @@ [status |-> 400, updated_fields |-> {}, statements |-> 0]
             /\ UNCHANGED movies
        ELSE IF movie_id \notin DOMAIN movies
        THEN /\ resp' = base @@ [status |-> 404, updated_fields |-> {}, statements |-> 1]
             /\ UNCHANGED movies
        ELSE /\ movies' = [movies EXCEPT ![movie_id] = UpdateMovieRow(@, data)]
             /\ resp' = base @@ [status |-> 200, updated_fields |-> updates, statements |-> 1]

DoUpdateMovie(headers, ids, bodies) ==
    \E header \in headers, movie_id \in ids, data \in bodies :
        /\ update_movie(header, movie_id, data)
        /\ UNCHANGED <<users, userSeq, movieSeq, movie_genres, ratings, ratingSeq,
                       active_tokens, tokSeq, issued, revoked, lastRated, threads>>

\* delete_movie without its DELETE FROM ratings
DeleteMovieRatings_Kept(movie_id) == ratings

\* DELETE FROM ratings WHERE movie_id = %s
DeleteMovieRatings(movie_id) == {r \in ratings : r.movie_id # movie_id}

(* DELETE /api/admin/movies/<movie_id> *)
delete_movie(header, movie_id) ==
    LET auth == require_auth(header)
        base == [op |-> "delete_movie", header |-> header, user_id |-> auth.info.id,
                 user_role |-> auth.info.role, movie_id |-> movie_id]
    IN  IF auth.status # 0
        THEN /\ resp' = base @@ [status |-> auth.status]
             /\ UNCHANGED <<movies, movie_genres, ratings>>
        ELSE IF require_admin(auth.info.role) # 0
        THEN /\ resp' = base @@ [status |-> require_admin(auth.info.role)]
             /\ UNCHANGED <<movies, movie_genres, ratings>>
        ELSE IF \E l \in MovieCompanies : l[1] = movie_id
        \* foreign key violation on DELETE FROM movies: nothing is committed
        THEN /\ resp' = base @@ [status |-> 500]
             /\ UNCHANGED <<movies, movie_genres, ratings>>
        ELSE /\ movie_genres' = {l \in movie_genres : l[1] # movie_id}
             /\ ratings' = DeleteMovieRatings(movie_id)
             /\ movies' = Del(movies, movie_id)
             /\ resp' = base @@ [status |-> IF movie_id \in DOMAIN movies THEN 200 ELSE 404]

DoDeleteMovie(headers, ids) ==
    \E header \in headers, movie_id \in ids :
        /\ delete_movie(header, movie_id)
        /\ UNCHANGED <<users, userSeq, movieSeq, ratingSeq,
                       active_tokens, tokSeq, issued, revoked, lastRated, threads>>

-----------------------------------------------------------------------------
(* PUT /api/profile *)

\* data.get(k): <<>> stands for None
Get(data, k) == IF Has(data, k) THEN data[k] ELSE <<>>

\* The loop over recent_ratings from entry i on: the rows and the sequence
\* after it, and whether it ran to its end (it returns 400 at an entry whose
\* rating is out of range)
RECURSIVE RatingsLoop(_, _, _, _, _)
RatingsLoop(batch, i, user_id, rows, seq) ==
    IF i > Len(batch) THEN [rows |-> rows, seq |-> seq, done |-> TRUE]
    ELSE LET e == batch[i]
         IN  IF Has(e, "movie_id") /\ Has(e, "rating") /\ RatingInRange(e["rating"])
             THEN RatingsLoop(batch, i + 1, user_id,
                      UpsertRating(rows, seq + 1, user_id, e["movie_id"], e["rating"]),
                      seq + 1)
             ELSE IF Has(e, "rating") /\ ~RatingInRange(e["rating"])
             THEN [rows |-> rows, seq |-> seq, done |-> FALSE]
             ELSE RatingsLoop(batch, i + 1, user_id, rows, seq)

\* history: the values a batch that ran to its end has written, last one wins
RECURSIVE BatchWrites(_, _, _, _)
BatchWrites(batch, i, user_id, last) ==
    IF i > Len(batch) THEN last
    ELSE LET e == batch[i]
         IN  IF Has(e, "movie_id") /\ Has(e, "rating") /\ RatingInRange(e["rating"])
             THEN BatchWrites(batch, i + 1, user_id,
                      Put(last, <<user_id, e["movie_id"]>>, e["rating"]))
             ELSE BatchWrites(batch, i + 1, user_id, last)

\* UpdateUserRow that also writes the role column
UpdateUserRow_Promotes(u, username, email, picture) ==
    [u EXCEPT !.username = IF username # <<>> THEN username ELSE @,
              !.email = IF email # <<>> THEN email ELSE @,
              !.profile_picture_path = IF picture # <<>> THEN picture ELSE @,
              !.role = "admin"]

\* UPDATE users SET <the fields given> WHERE id = user_id
UpdateUserRow(u, username, email, picture) ==
    [u EXCEPT !.username = IF username # <<>> THEN username ELSE @,
              !.email = IF email # <<>> THEN email ELSE @,
              !.profile_picture_path = IF picture # <<>> THEN picture ELSE @]

\* A connection that keeps what its statements wrote when it is dropped
Uncommitted_Kept(before, written) == written

\* The table after a return that neither commits nor rolls back: conn goes out
\* of scope, the connection is closed without a commit and the database
\* discards what its statements wrote
Uncommitted(before, written) == before

update_profile(header, data) ==
    LET auth == require_auth(header)
        user_id == auth.info.id
        base == [op |-> "update_profile", header |-> header, user_id |-> user_id,
                 user_role |-> auth.info.role, data |-> data]
        username == Get(data, "username")
        email == Get(data, "email")
        picture == Get(data, "profile_picture_path")
        batch == Get(data, "recent_ratings")
        mine == {u \in users : u.id = user_id}
        updated == {UpdateUserRow(u, username, email, picture) : u \in mine}
        clash == \E u \in users \ mine, v \in updated :
                     u.username = v.username \/ u.email = v.email
        loop == RatingsLoop(batch, 1, user_id, ratings, ratingSeq)
    IN  IF auth.status # 0
        THEN /\ resp' = base @@ [status |-> auth.status, statements |-> 0]
             /\ UNCHANGED <<users, ratings, ratingSeq, lastRated>>
        ELSE IF DOMAIN data = {}
        THEN /\ resp' = base @@ [status |-> 400, statements |-> 0]
             /\ UNCHANGED <<users, ratings, ratingSeq, lastRated>>
        ELSE IF username # <<>> /\ Strip(username) = <<>>
        THEN /\ resp' = base @@ [status |-> 400, statements |-> 0]
             /\ UNCHANGED <<users, ratings, ratingSeq, lastRated>>
        ELSE IF email # <<>> /\ ~validate_email(email)
        THEN /\ resp' = base @@ [status |-> 400, statements |-> 0]
             /\ UNCHANGED <<users, ratings, ratingSeq, lastRated>>
        ELSE IF clash
        \* IntegrityError: conn.rollback()
        THEN /\ resp' = base @@ [status |-> 409, statements |-> 1]
             /\ UNCHANGED <<users, ratings, ratingSeq, lastRated>>
        ELSE IF mine = {}
        THEN /\ resp' = base @@ [status |-> 404, statements |-> 1]
             /\ UNCHANGED <<users, ratings, ratingSeq, lastRated>>
        ELSE /\ loop.seq <= MaxRatingSeq
             /\ ratingSeq' = loop.seq
             /\ IF loop.done
                THEN /\ users' = (users \ mine) \cup updated
                     /\ ratings' = loop.rows
                     /\ lastRated' = BatchWrites(batch, 1, user_id, lastRated)
                     /\ resp' = base @@ [status |-> 200, statements |-> 1 + loop.seq - ratingSeq]
                ELSE /\ users' = Uncommitted(users, (users \ mine) \cup updated)
                     /\ ratings' = Uncommitted(ratings, loop.rows)
                     /\ UNCHANGED lastRated
                     \* the UPDATE or SELECT of users and the upserts ahead of the failing entry
                     /\ resp' = base @@ [status |-> 400, statements |-> 1 + loop.seq - ratingSeq]

DoUpdateProfile(headers, bodies) ==
    \E header \in headers, data \in bodies :
        /\ update_profile(header, data)
        /\ UNCHANGED <<userSeq, movies, movieSeq, movie_genres,
                       active_tokens, tokSeq, issued, revoked, threads>>

-----------------------------------------------------------------------------
(* GET /api/movies *)

\* The order of the characters of the titles in the database's collation.  The
\* titles here differ in their first letter, or in a backslash against a
\* lower-case letter: the C collation and the language collations order these
\* alike
Alphabet == <<"H", "N", "U", "\\", "a", "e", "p", "t", "w">>

CharRank(c) == CHOOSE i \in 1..Len(Alphabet) : Alphabet[i] = c

\* a < b on TEXT
RECURSIVE TextLess(_, _)
TextLess(a, b) ==
    IF b = <<>> THEN FALSE
    ELSE IF a = <<>> THEN TRUE
    ELSE IF Head(a) = Head(b) THEN TextLess(Tail(a), Tail(b))
    ELSE CharRank(Head(a)) < CharRank(Head(b))

sort_map ==
    [s \in {"title_asc", "title_desc", "rating_desc", "rating_asc",
            "date_new", "date_old", "popularity"} |->
        CASE s = "title_asc" -> [col |-> "title", desc |-> FALSE]
          [] s = "title_desc" -> [col |-> "title", desc |-> TRUE]
          [] s = "rating_desc" -> [col |-> "vote_average", desc |-> TRUE]
          [] s = "rating_asc" -> [col |-> "vote_average", desc |-> FALSE]
          [] s = "date_new" -> [col |-> "release_date", desc |-> TRUE]
          [] s = "date_old" -> [col |-> "release_date", desc |-> FALSE]
          [] s = "popularity" -> [col |-> "popularity", desc |-> TRUE]]

\* sort_map.get(sort, "m.popularity DESC")
order_clause(sort) ==
    IF sort \in DOMAIN sort_map THEN sort_map[sort] ELSE [col |-> "popularity", desc |-> TRUE]

\* The sort parameter of a request that has none.  (A request with an empty
\* sort parameter presents "", which is a value like any other.)
AbsentSort == "(absent)"

\* request.args.get('sort', default)
SortArg(sort, default) == IF sort = AbsentSort THEN default ELSE sort

\* x comes strictly before y under ORDER BY col ASC (NULLs last)
AscBefore(col, x, y) ==
    CASE col = "title" -> TextLess(x.title, y.title)
      [] col = "release_date" ->
            /\ x.release_date # NullDate
            /\ (y.release_date = NullDate \/ x.release_date[1] < y.release_date[1])
      [] OTHER -> x[col] < y[col]

\* x comes strictly before y under the ORDER BY clause; DESC is the reverse of
\* ASC (NULLs first)
Before(clause, x, y) ==
    IF clause.desc THEN AscBefore(clause.col, y, x) ELSE AscBefore(clause.col, x, y)

Perms(S) ==
    {p \in [1..Cardinality(S) -> S] : \A i, j \in 1..Cardinality(S) : i # j => p[i] # p[j]}

\* The orders ORDER BY may give the movies of ids: each row is one that no
\* remaining row comes strictly before, so rows with equal keys come in any
\* order
RECURSIVE Ordered(_, _)
Ordered(clause, ids) ==
    IF ids = {} THEN {<<>>}
    ELSE UNION {{<<m>> \o s : s \in Ordered(clause, ids \ {m})} :
                 m \in {x \in ids : \A y \in ids : ~Before(clause, movies[y], movies[x])}}

\* ARRAY_AGG(g_all.name) over the movie's rows of movie_genres JOIN genres
MovieGenreNames(movie_id) == {Genres[l[2]] : l \in {x \in movie_genres : x[1] = movie_id}}

\* genre and genre.lower() != "all"
T_all == <<"a", "l", "l">>
NoGenre == <<>>
GenreFilter(genre) == genre # NoGenre /\ Lower(genre) # T_all

\* movies m JOIN movie_genres mg JOIN genres g [WHERE g.name = genre] GROUP BY m.id
Joined(ids, genre) ==
    {m \in ids : \E l \in movie_genres :
        l[1] = m /\ (GenreFilter(genre) => Genres[l[2]] = genre)}

\* order is the order the database gave the rows of the main query
get_movies_ai(page, limit, genre, sort, order) ==
    LET offset == (page - 1) * limit
        base == [op |-> "get_movies", page |-> page, limit |-> limit, genre |-> genre,
                 sort |-> sort, order_by |-> order_clause(SortArg(sort, "popularity"))]
        \* the count query: COUNT(DISTINCT m.id) over the join when a genre is
        \* given, COUNT(*) FROM movies otherwise
        total == IF GenreFilter(genre) THEN Cardinality(Joined(DOMAIN movies, genre))
                 ELSE Cardinality(DOMAIN movies)
        rows == Slice(order, limit, offset)
    IN  IF limit < 0 \/ offset < 0
        \* the database refuses a negative LIMIT or OFFSET
        THEN resp' = base @@ [status |-> 500, movies |-> <<>>, total |-> 0, total_pages |-> 0]
        ELSE IF limit = 0
        \* (total + limit - 1) // limit raises ZeroDivisionError inside the try
        THEN resp' = base @@ [status |-> 500, movies |-> <<>>, total |-> 0, total_pages |-> 0]
        ELSE resp' = base @@ [status |-> 200,
                              \* the columns of a listed movie the model keeps
                              movies |-> [i \in DOMAIN rows |->
                                            [id |-> rows[i],
                                             title |-> movies[rows[i]].title,
                                             genres |-> MovieGenreNames(rows[i])]],
                              total |-> total,
                              total_pages |-> (total + limit - 1) \div limit]

DoGetMovies(pages, limits, genres, sorts) ==
    \E page \in pages, limit \in limits, genre \in genres, sort \in sorts :
        /\ \E order \in Ordered(order_clause(SortArg(sort, "popularity")),
                               Joined(DOMAIN movies, genre)) :
               get_movies_ai(page, limit, genre, sort, order)
        /\ UNCHANGED <<dbVars, active_tokens, tokSeq, issued, revoked, lastRated, threads>>

-----------------------------------------------------------------------------
(* GET /api/my-movies *)

\* The movies of the table movies that have a rating of the user
\* (movies m JOIN ratings r ON m.id = r.movie_id WHERE r.user_id = user_id)
RatedMovies(user_id) ==
    {m \in DOMAIN movies : \E r \in ratings : r.user_id = user_id /\ r.movie_id = m}

\* order is the order the database gave the rows of the query
get_myMovies(header, page, limit, genre, sort, order) ==
    LET auth == require_auth(header)
        user_id == auth.info.id
        offset == (page - 1) * limit
        base == [op |-> "get_my_movies", header |-> header, user_id |-> user_id,
                 user_role |-> auth.info.role, page |-> page, limit |-> limit,
                 genre |-> genre, sort |-> sort,
                 order_by |-> order_clause(SortArg(sort, "date_new"))]
        \* the two count queries: over the join with movie_genres and genres
        \* when a genre is given, over movies JOIN ratings alone otherwise
        total == IF GenreFilter(genre) THEN Cardinality(Joined(RatedMovies(user_id), genre))
                 ELSE Cardinality(RatedMovies(user_id))
        rows == Slice(order, limit, offset)
        failed == [movies |-> <<>>, total |-> 0, total_pages |-> 0]
    IN  IF auth.status # 0
        THEN resp' = base @@ [status |-> auth.status] @@ failed
        ELSE IF limit < 0 \/ offset < 0
        \* the database refuses a negative LIMIT or OFFSET
        THEN resp' = base @@ [status |-> 500] @@ failed
        ELSE IF limit = 0
        \* (total + limit - 1) // limit raises ZeroDivisionError inside the try
        THEN resp' = base @@ [status |-> 500] @@ failed
        ELSE resp' = base @@ [status |-> 200,
                              \* ARRAY_AGG(DISTINCT g.name) over the rows the WHERE
                              \* keeps: with a genre filter only the rows of that
                              \* genre are left to aggregate
                              movies |-> [i \in DOMAIN rows |->
                                            [id |-> rows[i],
                                             title |-> movies[rows[i]].title,
                                             genres |-> IF GenreFilter(genre)
                                                        THEN MovieGenreNames(rows[i]) \cap {genre}
                                                        ELSE MovieGenreNames(rows[i]),
                                             user_rating |->
                                                (CHOOSE r \in ratings :
                                                    /\ r.user_id = user_id
                                                    /\ r.movie_id = rows[i]).rating]],
                              total |-> total,
                              total_pages |-> (total + limit - 1) \div limit]

DoGetMyMovies(headers, pages, limits, genres, sorts) ==
    \E header \in headers, page \in pages, limit \in limits, genre \in genres, sort \in sorts :
        /\ \E order \in Ordered(order_clause(SortArg(sort, "date_new")),
                               Joined(RatedMovies(require_auth(header).info.id), genre)) :
               get_myMovies(header, page, limit, genre, sort, order)
        /\ UNCHANGED <<dbVars, active_tokens, tokSeq, issued, revoked, lastRated, threads>>

-----------------------------------------------------------------------------
(* GET /api/movies/search *)

\* text ILIKE pattern: % is any run of characters, _ any one character, a
\* backslash takes the next character of the pattern literally, and letters
\* are compared without case.  (A pattern that ends in a backslash is an error
\* of the database; f"%{query}%" never ends in one.)
RECURSIVE ILike(_, _)
ILike(text, pattern) ==
    IF pattern = <<>> THEN text = <<>>
    ELSE IF Head(pattern) = "%"
        THEN ILike(text, Tail(pattern)) \/ (text # <<>> /\ ILike(Tail(text), pattern))
    ELSE IF Head(pattern) = "_"
        THEN text # <<>> /\ ILike(Tail(text), Tail(pattern))
    ELSE IF Head(pattern) = "\\" /\ Tail(pattern) # <<>>
        THEN /\ text # <<>>
             /\ LowerChar(Head(text)) = LowerChar(pattern[2])
             /\ ILike(Tail(text), Tail(Tail(pattern)))
    ELSE /\ text # <<>>
         /\ LowerChar(Head(text)) = LowerChar(Head(pattern))
         /\ ILike(Tail(text), Tail(pattern))

\* m.title ILIKE f"%{query}%"
TitleMatches(query) ==
    {m \in DOMAIN movies : ILike(movies[m].title, <<"%">> \o query \o <<"%">>)}

\* FROM movies m [JOIN movie_genres mg JOIN genres g] WHERE m.title ILIKE ...
\* [AND g.name = genre]: the join is there only with a genre filter
SearchIds(query, genre) ==
    IF GenreFilter(genre) THEN Joined(TitleMatches(query), genre) ELSE TitleMatches(query)

\* order is the order the database gave the rows of the query
search_movies(query, page, limit, genre, sort, order) ==
    LET offset == (page - 1) * limit
        base == [op |-> "search_movies", query |-> query, page |-> page, limit |-> limit,
                 genre |-> genre, sort |-> sort,
                 order_by |-> order_clause(SortArg(sort, "popularity"))]
        total == Cardinality(SearchIds(query, genre))
        rows == Slice(order, limit, offset)
    IN  IF limit < 0 \/ offset < 0
        \* the database refuses a negative LIMIT or OFFSET
        THEN resp' = base @@ [status |-> 500, movies |-> <<>>, total |-> 0, total_pages |-> 0]
        ELSE IF limit = 0
        \* (total + limit - 1) // limit raises ZeroDivisionError inside the try
        THEN resp' = base @@ [status |-> 500, movies |-> <<>>, total |-> 0, total_pages |-> 0]
        ELSE resp' = base @@ [status |-> 200,
                              movies |-> [i \in DOMAIN rows |->
                                            [id |-> rows[i],
                                             title |-> movies[rows[i]].title,
                                             debug_genres |-> MovieGenreNames(rows[i])]],
                              total |-> total,
                              total_pages |-> (total + limit - 1) \div limit]

DoSearchMovies(queries, pages, limits, genres, sorts) ==
    \E query \in queries, page \in pages, limit \in limits, genre \in genres, sort \in sorts :
        /\ \E order \in Ordered(order_clause(SortArg(sort, "popularity")),
                               SearchIds(query, genre)) :
               search_movies(query, page, limit, genre, sort, order)
        /\ UNCHANGED <<dbVars, active_tokens, tokSeq, issued, revoked, lastRated, threads>>

-----------------------------------------------------------------------------
(* GET /api/home and GET /api/home/recommendations *)

\* LIMIT 20 of the two lists of the home page, and of the recommendations
HomeLimit == 20
RecommendLimit == 20

\* The columns of a movie of these lists the model keeps
HomeRow(movie_id) == [id |-> movie_id, title |-> movies[movie_id].title]

\* A home page that shows its lists to callers with a session only
get_home_SessionOnly(header, popular, recent) ==
    resp' = [op |-> "get_home", header |-> header, status |-> 200,
             popular |-> IF require_auth(header).status # 0 THEN <<>>
                         ELSE [i \in DOMAIN Slice(popular, HomeLimit, 0) |-> HomeRow(popular[i])],
             recent |-> IF require_auth(header).status # 0 THEN <<>>
                        ELSE [i \in DOMAIN Slice(recent, HomeLimit, 0) |-> HomeRow(recent[i])]]

\* The handler reads no header: popular and recent are the orders the
\* database gave the rows of its two queries
get_home(header, popular, recent) ==
    resp' = [op |-> "get_home", header |-> header, status |-> 200,
             popular |-> [i \in DOMAIN Slice(popular, HomeLimit, 0) |-> HomeRow(popular[i])],
             recent |-> [i \in DOMAIN Slice(recent, HomeLimit, 0) |-> HomeRow(recent[i])]]

DoGetHome(headers) ==
    \E header \in headers :
        /\ \E popular \in Ordered([col |-> "popularity", desc |-> TRUE], DOMAIN movies),
              recent \in Ordered([col |-> "release_date", desc |-> TRUE],
                                 {m \in DOMAIN movies : movies[m].release_date # NullDate}) :
               get_home(header, popular, recent)
        /\ UNCHANGED <<dbVars, active_tokens, tokSeq, issued, revoked, lastRated, threads>>

\* SELECT movie_id FROM ratings WHERE user_id = %s
RatedIds(user_id) == {r.movie_id : r \in {x \in ratings : x.user_id = user_id}}

\* SELECT DISTINCT mg2.genre_id FROM ratings r JOIN movie_genres mg2
\* ON r.movie_id = mg2.movie_id WHERE r.user_id = %s
RatedGenres(user_id) == {l[2] : l \in {x \in movie_genres : x[1] \in RatedIds(user_id)}}

\* RecommendedIds without the NOT IN condition
RecommendedIds_WithRated(user_id) ==
    {m \in DOMAIN movies : \E l \in movie_genres : l[1] = m /\ l[2] \in RatedGenres(user_id)}

\* SELECT DISTINCT m.id, ... FROM movies m JOIN movie_genres mg
\* WHERE mg.genre_id IN (...) AND m.id NOT IN (...)
RecommendedIds(user_id) ==
    {m \in DOMAIN movies :
        /\ \E l \in movie_genres : l[1] = m /\ l[2] \in RatedGenres(user_id)
        /\ m \notin RatedIds(user_id)}

\* order is the order the database gave the rows of the query; message tells
\* that the response carries a message in place of the recommended list
get_home_recommendations(header, order) ==
    LET auth == require_auth(header)
        base == [op |-> "get_home_recommendations", header |-> header,
                 user_id |-> auth.info.id, user_role |-> auth.info.role]
        rows == Slice(order, RecommendLimit, 0)
    IN  IF auth.status # 0
        THEN resp' = base @@ [status |-> auth.status, recommended |-> <<>>, message |-> FALSE]
        ELSE resp' = base @@ [status |-> 200,
                              recommended |-> [i \in DOMAIN rows |-> HomeRow(rows[i])],
                              message |-> (rows = <<>>)]

DoGetHomeRecommendations(headers) ==
    \E header \in headers :
        /\ \E order \in Ordered([col |-> "popularity", desc |-> TRUE],
                               RecommendedIds(require_auth(header).info.id)) :
               get_home_recommendations(header, order)
        /\ UNCHANGED <<dbVars, active_tokens, tokSeq, issued, revoked, lastRated, threads>>

-----------------------------------------------------------------------------
(* The requests of the clients *)


RegisterBody(username, email, password) ==
    ("username" :> username) @@ ("email" :> email) @@ ("password" :> password)

RegisterBodies ==
    {RegisterBody(T_al, T_mail_a, T_GoodPass),
     RegisterBody(T_al_padded, T_mail_d, T_GoodPass),
     RegisterBody(T_cy, <<" ", "A", "@", "b", ".", "c", "c">>, T_GoodPass),
     RegisterBody(T_cy, T_mail_c, T_GoodPass),
     RegisterBody(T_bo, T_mail_d, T_GoodPass),
     RegisterBody(T_cy, T_mail_bad, T_GoodPass),
     RegisterBody(T_cy, T_mail_d, <<"s", "h", "o", "r", "t">>),
     RegisterBody(T_empty, T_mail_a, T_GoodPass),
     ("username" :> T_al) @@ ("email" :> T_mail_a)}

LoginBody(username, password) == ("username" :> username) @@ ("password" :> password)

LoginBodies ==
    {LoginBody(T_admin, T_admin_password),
     LoginBody(T_admin, T_GoodPass),
     LoginBody(T_bo, T_GoodPass),
     LoginBody(T_al, T_GoodPass),
     LoginBody(T_al_padded, T_GoodPass),
     "username" :> T_bo}

MovieIds == 1..MaxMovieSeq

RatingBodies ==
    {EmptyBody} \cup {"rating" :> r : r \in {0 - 1, Pts(0), Pts(8), Pts(10) + 1}}

MovieBodies ==
    {EmptyBody,
     "title" :> T_New,
     ("title" :> T_Up) @@ ("popularity" :> 7) @@ ("release_date" :> <<2020>>),
     ("popularity" :> 3) @@ ("raw_genres" :> "[1]"),
     ("raw_genres" :> "[1]") @@ ("id" :> 9)}

RatingEntry(movie_id, rating) == ("movie_id" :> movie_id) @@ ("rating" :> rating)

UserFieldBodies ==
    {EmptyBody,
     "username" :> T_al,
     "username" :> T_admin,
     "username" :> <<" ">>,
     "email" :> T_mail_bad,
     ("email" :> <<"A", "@", "b", ".", "c", "c">>) @@ ("profile_picture_path" :> <<"p">>)}

RatingBatchBodies ==
    {"recent_ratings" :> <<RatingEntry(1, Pts(3)), RatingEntry(1, Pts(8))>>,
     "recent_ratings" :> <<RatingEntry(2, Pts(7)), RatingEntry(1, Pts(11))>>,
     "recent_ratings" :> <<"rating" :> Pts(7), "movie_id" :> 2, RatingEntry(1, Pts(7))>>}

PageInputs == {0, 1, 2}
LimitInputs == {1, 2}
LoadedMovieIds == DOMAIN LoadedMovies
GenreParams == {NoGenre, <<"A", "l", "l">>, T_Drama, T_Comedy}
SortParams == DOMAIN sort_map \cup {"newest", "", AbsentSort}
CatalogLimits == {0, 1, 2}
T_Backslash == <<"N", "\\">>
Queries == {T_empty, T_New, <<"n", "e", "w">>, T_Heat, T_Backslash}

\* Every request of the model
Next ==
    \/ DoRegister(RegisterBodies)
    \/ DoLogin(LoginBodies)
    \/ DoLogout(Headers)
    \/ DoGetProfile(Headers)
    \/ DoUpdateProfile(Headers, UserFieldBodies \cup RatingBatchBodies)
    \/ DoSubmitRating(Headers, MovieIds, RatingBodies)
    \/ DoDeleteRating(Headers, MovieIds)
    \/ DoGetMovieRatings(MovieIds, PageInputs, LimitInputs)
    \/ DoInsertMovie(Headers, MovieBodies)
    \/ DoUpdateMovie(Headers, MovieIds, MovieBodies)
    \/ DoDeleteMovie(Headers, MovieIds)
    \/ DoGetMovies(PageInputs, CatalogLimits, GenreParams, SortParams)
    \/ DoGetMyMovies(Headers, PageInputs, CatalogLimits, GenreParams, SortParams)
    \/ DoSearchMovies(Queries, PageInputs, CatalogLimits, GenreParams, SortParams)
    \/ DoGetHome(Headers)
    \/ DoGetHomeRecommendations(Headers)

Spec == Init /\ [][Next]_vars

\* Sessions: logins and logouts of the users of the initial tables, and the
\* requests that present a token
NextSession ==
    \/ DoLogin(LoginBodies)
    \/ DoLogout(Headers)
    \/ DoGetProfile(Headers)
    \/ DoDeleteRating(Headers, {1})

SpecSession == Init /\ [][NextSession]_vars

\* Accounts: registration, and the profile update that renames a user
NextAccounts ==
    \/ DoRegister(RegisterBodies)
    \/ DoLogin({LoginBody(T_bo, T_GoodPass), LoginBody(T_al, T_GoodPass)})
    \/ DoUpdateProfile(BearerHeaders, UserFieldBodies)

SpecAccounts == Init /\ [][NextAccounts]_vars

\* Ratings: logins, and the requests that write ratings
NextRatings ==
    \/ DoLogin({LoginBody(T_bo, T_GoodPass), LoginBody(T_admin, T_admin_password)})
    \/ DoSubmitRating(BearerHeaders, LoadedMovieIds, {"rating" :> Pts(8), "rating" :> Pts(11)})
    \/ DoDeleteRating(BearerHeaders, LoadedMovieIds)
    \/ DoUpdateProfile(BearerHeaders, RatingBatchBodies)

SpecRatings == Init /\ [][NextRatings]_vars

\* Rating submissions of one user for one movie, with every kind of body
NextRatingInput ==
    \/ DoLogin({LoginBody(T_bo, T_GoodPass)})
    \/ DoSubmitRating(BearerHeaders, {1}, RatingBodies)
    \/ DoDeleteRating(BearerHeaders, {1})

SpecRatingInput == Init /\ [][NextRatingInput]_vars

\* A new user's path: registration, login, a rating, the movie's statistics
NextEndToEnd ==
    \/ DoRegister({RegisterBody(T_al, T_mail_a, T_GoodPass)})
    \/ DoLogin({LoginBody(T_al, T_GoodPass)})
    \/ DoSubmitRating(BearerHeaders, LoadedMovieIds, {"rating" :> Pts(8), "rating" :> Pts(3)})
    \/ DoDeleteRating(BearerHeaders, LoadedMovieIds)
    \/ DoGetMovieRatings(MovieIds, PageInputs, LimitInputs)

SpecEndToEnd == Init /\ [][NextEndToEnd]_vars

\* Administration: logins of an administrator and of a plain user, the three
\* admin-only requests, and ratings for the deletion to cascade to
NextAdmin ==
    \/ DoLogin({LoginBody(T_admin, T_admin_password), LoginBody(T_bo, T_GoodPass)})
    \/ DoSubmitRating(BearerHeaders, {1}, {"rating" :> Pts(8)})
    \/ DoInsertMovie(BearerHeaders, {EmptyBody, "title" :> T_New})
    \/ DoUpdateMovie(BearerHeaders, {1, 3},
                     {("popularity" :> 3) @@ ("raw_genres" :> "[1]"),
                      ("raw_genres" :> "[1]") @@ ("id" :> 9)})
    \/ DoDeleteMovie(BearerHeaders, {1, 3})

SpecAdmin == Init /\ [][NextAdmin]_vars

\* The catalog: an administrator who inserts, changes and deletes movies, and
\* the list request with its pages, limits, genres and sorts
NextCatalog ==
    \/ DoLogin({LoginBody(T_admin, T_admin_password)})
    \/ DoInsertMovie(BearerHeaders, {"title" :> T_New})
    \/ DoUpdateMovie(BearerHeaders, {2}, {"popularity" :> 9})
    \/ DoDeleteMovie(BearerHeaders, {1})
    \/ DoGetMovies(PageInputs, CatalogLimits, GenreParams,
                   {"popularity", "rating_desc", "title_asc", "date_old", "newest"})

SpecCatalog == Init /\ [][NextCatalog]_vars

\* The caller's own list: movies of the loader and a movie an administrator
\* inserts, rated by the administrator and by a plain user
NextMyMovies ==
    \/ DoLogin({LoginBody(T_admin, T_admin_password), LoginBody(T_bo, T_GoodPass)})
    \/ DoInsertMovie(BearerHeaders, {"title" :> T_New})
    \/ DoSubmitRating(BearerHeaders, {1, 3}, {"rating" :> Pts(8)})
    \/ DoGetMyMovies(BearerHeaders, {1, 2}, LimitInputs, {NoGenre, T_Comedy}, {"date_new"})

SpecMyMovies == Init /\ [][NextMyMovies]_vars

\* Search: an administrator who inserts movies, gives one a new title and
\* deletes one, and searches with the default page and limit
NextSearch ==
    \/ DoLogin({LoginBody(T_admin, T_admin_password)})
    \/ DoInsertMovie(BearerHeaders, {EmptyBody, "title" :> T_New, "title" :> T_Backslash})
    \/ DoUpdateMovie(BearerHeaders, {3}, {"title" :> T_Heat})
    \/ DoDeleteMovie(BearerHeaders, {3})
    \/ DoSearchMovies(Queries, {1}, {20}, {NoGenre, T_Drama}, {"popularity", "title_asc"})

SpecSearch == Init /\ [][NextSearch]_vars

\* A catalog of the loader with more movies than the lists of the home page
\* show: movie m has popularity m, but movies 3 and 4 are equally popular; the
\* last two movies have no release date; all but the last movie are dramas, the
\* last one is a comedy
InitLargeCatalog ==
    /\ users = {AdminRow, EarlierUserRow}
    /\ userSeq = 2
    /\ active_tokens = EmptyMap
    /\ tokSeq = 0
    /\ movies = [m \in 1..CatalogSize |->
                    MovieRow(T_Up, IF m = 3 THEN 4 ELSE m,
                             IF m > CatalogSize - 2 THEN NullDate ELSE <<1990 + m>>)]
    /\ movieSeq = CatalogSize
    /\ movie_genres = ({<<m, 1>> : m \in 1..(CatalogSize - 1)} \cup {<<CatalogSize, 2>>})
    /\ ratings = {}
    /\ ratingSeq = 0
    /\ resp = [op |-> "none", status |-> 0]
    /\ issued = EmptyMap
    /\ revoked = {}
    /\ lastRated = [k \in {} |-> 0]
    /\ threads = [i \in ThreadIds |-> IdleThread]

\* The home page and the recommendations over the large catalog: a user who
\* logs in and rates a drama and the comedy, and callers with no token, a
\* forged token and a valid token
NextFeed ==
    \/ DoLogin({LoginBody(T_bo, T_GoodPass)})
    \/ DoSubmitRating(BearerHeaders, {1, CatalogSize}, {"rating" :> Pts(8)})
    \/ DoGetHome(BearerHeaders \cup {[bearer |-> 1, tok |-> "forged"]})
    \/ DoGetHomeRecommendations(BearerHeaders)

SpecFeed == InitLargeCatalog /\ [][NextFeed]_vars


\* A call of validate_password; resp keeps the argument and the pair returned
DoValidatePassword(passwords) ==
    \E password \in passwords :
        /\ resp' = [op |-> "validate_password", password |-> password,
                    is_valid |-> validate_password(password)[1],
                    error_msg |-> validate_password(password)[2]]
        /\ UNCHANGED <<dbVars, active_tokens, tokSeq, issued, revoked, lastRated, threads>>

\* Passwords around every test of validate_password: up to MaxTailLen characters
\* of the four classes, alone (too short) or behind five or seven digits, and
\* the three passwords of the documentation
NextPassword ==
    DoValidatePassword(
        {pad \o tail :
            pad \in {<<>>, <<"1", "1", "1", "1", "1">>, <<"1", "1", "1", "1", "1", "1", "1">>},
            tail \in UNION {[1..k -> {"a", "A", "!", "1"}] : k \in 0..MaxTailLen}}
        \cup {<<"s", "h", "o", "r", "t">>,
              <<"a", "l", "l", "l", "o", "w", "e", "r", "1", "!">>,
              T_GoodPass})

SpecPassword == Init /\ [][NextPassword]_vars

\* Profile updates that fail after statements have run: a new username with a
\* batch whose second rating is out of range, a taken username with a valid
\* batch, and batches alone
NextProfile ==
    \/ DoLogin({LoginBody(T_bo, T_GoodPass)})
    \/ DoSubmitRating(BearerHeaders, {1}, {"rating" :> Pts(8)})
    \/ DoUpdateProfile(BearerHeaders,
           {("username" :> T_al) @@
                ("recent_ratings" :> <<RatingEntry(2, Pts(7)), RatingEntry(1, Pts(11))>>),
            ("username" :> T_admin) @@ ("recent_ratings" :> <<RatingEntry(2, Pts(7))>>),
            ("email" :> T_mail_d) @@ ("recent_ratings" :> <<RatingEntry(1, Pts(3))>>),
            "recent_ratings" :> <<RatingEntry(1, Pts(3)), RatingEntry(2, 0 - 1)>>,
            "username" :> <<" ">>})

SpecProfile == Init /\ [][NextProfile]_vars

\* Sorting: every sort value, none, and values outside the whitelist, sent to
\* the three endpoints that sort, by a user who rates the two loaded movies
NextSort ==
    \/ DoLogin({LoginBody(T_bo, T_GoodPass)})
    \/ DoSubmitRating(BearerHeaders, LoadedMovieIds, {"rating" :> Pts(8)})
    \/ DoGetMovies({1}, {2}, {NoGenre}, SortParams)
    \/ DoGetMyMovies(BearerHeaders, {1}, {2}, {NoGenre}, SortParams)
    \/ DoSearchMovies({T_empty}, {1}, {2}, {NoGenre}, SortParams)

SpecSort == Init /\ [][NextSort]_vars

\* Roles: registrations and profile updates whose bodies ask for the role
\* "admin", and logins of the seeded administrator, the seeded user and the
\* registered user
NextRoles ==
    \/ DoRegister({RegisterBody(T_al, T_mail_a, T_GoodPass) @@ ("role" :> "admin")})
    \/ DoLogin({LoginBody(T_al, T_GoodPass), LoginBody(T_bo, T_GoodPass),
                LoginBody(T_admin, T_admin_password)})
    \/ DoUpdateProfile(BearerHeaders, {"role" :> "admin",
                                       ("username" :> T_cy) @@ ("role" :> "admin"),
                                       ("email" :> T_mail_d) @@ ("role" :> "admin")})

SpecRoles == Init /\ [][NextRoles]_vars

-----------------------------------------------------------------------------
(* Requests served at the same time *)

\* The thread of a request that has just been received
Request(op, header, data) ==
    [IdleThread EXCEPT !.op = op, !.header = header, !.data = data,
                       !.pc = IF op = "login" THEN "login_select" ELSE "require_auth_check",
                       !.before = active_tokens]

\* The server receives one request for each of its threads: a login, a logout
\* or a GET /api/profile
StartRequests(logins, headers) ==
    /\ \A i \in ThreadIds : threads[i].pc \in {"idle", "done"}
    /\ \E reqs \in [ThreadIds ->
                      {Request("login", NoHeader, data) : data \in logins} \cup
                      {Request(op, header, EmptyBody) :
                          op \in {"logout", "get_profile"}, header \in headers}] :
           /\ tokSeq + Cardinality({i \in ThreadIds : reqs[i].op = "login"}) <= MaxTokens
           /\ threads' = reqs
    /\ UNCHANGED <<dbVars, active_tokens, tokSeq, resp, issued, revoked, lastRated>>

\* require_auth, first step: if not token ... if token not in active_tokens
require_auth_check(i) ==
    LET t == threads[i]
    IN  /\ t.pc = "require_auth_check"
        /\ threads' = [threads EXCEPT ![i] =
               IF t.header = NoHeader \/ StripBearer(t.header) \notin DOMAIN active_tokens
               THEN [t EXCEPT !.pc = "done", !.status = 401]
               ELSE [t EXCEPT !.pc = "require_auth_read"]]
        /\ revoked' = IF t.op = "logout"
                       THEN revoked \cup ({StripBearer(t.header)} \cap DOMAIN issued)
                       ELSE revoked
        /\ UNCHANGED <<dbVars, active_tokens, tokSeq, resp, issued, lastRated>>

\* require_auth, second step: user_info = active_tokens[token].  The subscript
\* raises KeyError when the key is gone; nothing catches it and the server
\* answers 500
require_auth_read(i) ==
    LET t == threads[i]
        token == StripBearer(t.header)
    IN  /\ t.pc = "require_auth_read"
        /\ threads' = [threads EXCEPT ![i] =
               IF token \in DOMAIN active_tokens
               THEN [t EXCEPT !.info = active_tokens[token],
                              !.pc = IF t.op = "logout" THEN "logout_test"
                                     ELSE "get_profile_body"]
               ELSE [t EXCEPT !.pc = "done", !.status = 500]]
        /\ UNCHANGED <<dbVars, active_tokens, tokSeq, resp, issued, revoked, lastRated>>

\* logout, first step: if token in active_tokens
logout_test(i) ==
    LET t == threads[i]
    IN  /\ t.pc = "logout_test"
        /\ threads' = [threads EXCEPT ![i] =
               IF StripBearer(t.header) \in DOMAIN active_tokens
               THEN [t EXCEPT !.pc = "logout_del"]
               ELSE [t EXCEPT !.pc = "done", !.status = 200]]
        /\ UNCHANGED <<dbVars, active_tokens, tokSeq, resp, issued, revoked, lastRated>>

\* logout, second step: del active_tokens[token], KeyError when the key is gone
logout_del(i) ==
    LET t == threads[i]
        token == StripBearer(t.header)
    IN  /\ t.pc = "logout_del"
        /\ IF token \in DOMAIN active_tokens
           THEN /\ active_tokens' = Del(active_tokens, token)
                /\ threads' = [threads EXCEPT ![i] = [t EXCEPT !.pc = "done", !.status = 200]]
           ELSE /\ UNCHANGED active_tokens
                /\ threads' = [threads EXCEPT ![i] = [t EXCEPT !.pc = "done", !.status = 500]]
        /\ UNCHANGED <<dbVars, tokSeq, resp, issued, revoked, lastRated>>

\* The body of get_profile, for the user require_auth has put on the request
get_profile_body(i) ==
    LET t == threads[i]
    IN  /\ t.pc = "get_profile_body"
        /\ threads' = [threads EXCEPT ![i] =
               [t EXCEPT !.pc = "done",
                         !.status = IF {u \in users : u.id = t.info.id} = {} THEN 404
                                    ELSE 200]]
        /\ UNCHANGED <<dbVars, active_tokens, tokSeq, resp, issued, revoked, lastRated>>

\* login, first step: the check of the body and the SELECT of the user
login_select(i) ==
    LET t == threads[i]
        found == FindUser(t.data["username"], hash_password(t.data["password"]))
    IN  /\ t.pc = "login_select"
        /\ threads' = [threads EXCEPT ![i] =
               IF ~(Has(t.data, "username") /\ Has(t.data, "password"))
               THEN [t EXCEPT !.pc = "done", !.status = 400]
               ELSE IF found = {}
               THEN [t EXCEPT !.pc = "done", !.status = 401]
               ELSE LET user == CHOOSE u \in found : TRUE
                    IN  [t EXCEPT !.pc = "login_store",
                                  !.user = [id |-> user.id, role |-> user.role]]]
        /\ UNCHANGED <<dbVars, active_tokens, tokSeq, resp, issued, revoked, lastRated>>

\* login, second step: token = generate_token(); active_tokens[token] = {...}
login_store(i) ==
    LET t == threads[i]
        token == generate_token(tokSeq + 1)
    IN  /\ t.pc = "login_store"
        /\ tokSeq' = tokSeq + 1
        /\ active_tokens' = StoreToken(token, t.user)
        /\ issued' = Put(issued, token, t.user)
        /\ threads' = [threads EXCEPT ![i] =
               [t EXCEPT !.pc = "done", !.status = 200, !.token = token]]
        /\ UNCHANGED <<dbVars, resp, revoked, lastRated>>

\* Two threads: logins of the two users of the initial tables (one also with a
\* wrong password), logouts and profile requests with the tokens issued so far
NextThreads ==
    \/ StartRequests({LoginBody(T_bo, T_GoodPass), LoginBody(T_admin, T_admin_password),
                      LoginBody(T_bo, T_admin_password)}, BearerHeaders)
    \/ \E i \in ThreadIds : require_auth_check(i)
    \/ \E i \in ThreadIds : require_auth_read(i)
    \/ \E i \in ThreadIds : logout_test(i)
    \/ \E i \in ThreadIds : logout_del(i)
    \/ \E i \in ThreadIds : get_profile_body(i)
    \/ \E i \in ThreadIds : login_select(i)
    \/ \E i \in ThreadIds : login_store(i)

SpecThreads == Init /\ [][NextThreads]_vars

-----------------------------------------------------------------------------
(* Properties *)

\* C1: a request that presents a token a login returned (bare or behind
\* "Bearer ") is served as the user of that login, with the id and the role of
\* the login response, as long as no logout request has presented the token;
\* once one has, the request is answered 401.
C1_TokenResolvesUntilLogout ==
    [][resp'.op \in {"logout", "get_profile", "update_profile", "submit_rating", "delete_rating", "insert_movie", "update_movie", "delete_movie"} =>
        LET t == StripBearer(resp'.header)
        IN  t \in DOMAIN issued =>
                IF t \in revoked
                    THEN resp'.status = 401
                    ELSE /\ resp'.status # 401
                         /\ resp'.user_id = issued[t].id
                         /\ resp'.user_role = issued[t].role]_vars

\* C1 witness: a profile request is refused with a token that was logged
\* out, while a later login of the same user is still in the map.
C1_Witness ==
    /\ resp.op = "get_profile"
    /\ resp.status = 401
    /\ StripBearer(resp.header) \in revoked
    /\ \E t \in DOMAIN active_tokens :
           active_tokens[t].id = issued[StripBearer(resp.header)].id

\* C2: a logout request that presents a token a login returned is answered
\* 200, also when the token is no longer in the map, and leaves the token absent.
C2_LogoutAlwaysSucceeds ==
    (resp.op = "logout" /\ StripBearer(resp.header) \in DOMAIN issued) =>
        /\ resp.status = 200
        /\ StripBearer(resp.header) \notin DOMAIN active_tokens

C4_LoginNeedsMatch ==
    [][/\ (/\ resp'.op = "login"
           /\ Has(resp'.data, "username") /\ Has(resp'.data, "password")
           /\ ~\E u \in users : /\ u.username = resp'.data["username"]
                                /\ u.password_hash = hash_password(resp'.data["password"]))
          => (resp'.status = 401 /\ active_tokens' = active_tokens)
       /\ \A t \in DOMAIN active_tokens' \ DOMAIN active_tokens :
            /\ resp'.op = "login"
            /\ resp'.status = 200
            /\ resp'.token = t
            /\ \E u \in users : /\ u.username = resp'.data["username"]
                                /\ u.password_hash = hash_password(resp'.data["password"])
                                /\ active_tokens'[t].id = u.id]_vars

\* C4 witness: a login with the name of a stored user and a wrong password is
\* refused while a session exists.
C4_Witness ==
    /\ resp.op = "login"
    /\ resp.status = 401
    /\ \E u \in users : u.username = resp.data["username"]
    /\ DOMAIN active_tokens # {}

\* C5: every entry of the session map stays, unchanged, in every step except
\* a logout that presents that very token; a successful login adds one new
\* token and keeps all the others.
C5_TokensKeptUntilOwnLogout ==
    [][/\ \A t \in DOMAIN active_tokens :
            \/ (t \in DOMAIN active_tokens' /\ active_tokens'[t] = active_tokens[t])
            \/ (resp'.op = "logout" /\ StripBearer(resp'.header) = t)
       /\ (resp'.op = "login" /\ resp'.status = 200)
            => /\ resp'.token \notin DOMAIN active_tokens
               /\ DOMAIN active_tokens' = DOMAIN active_tokens \cup {resp'.token}]_vars

\* C5 witness: a user holds two sessions: the second login has kept the first.
C5_Witness ==
    /\ resp.op = "login"
    /\ resp.status = 200
    /\ \E t \in DOMAIN active_tokens :
           t # resp.token /\ active_tokens[t].id = resp.user.id

\* C6: no two users share an id, a username or an email.  A registration with
\* all fields, a valid email and a valid password is answered 409 when its
\* username (stripped) or its email (stripped, lower case) is that of a stored
\* user, and 201 otherwise; 201 comes with the positive id of the one row added;
\* any other answer leaves the table users as it is.
C6_RegisterUnique ==
    /\ [](\A u, v \in users :
             u # v => (u.id # v.id /\ u.username # v.username /\ u.email # v.email))
    /\ [][resp'.op = "register" =>
            LET d == resp'.data
                complete == \A k \in RequiredFields : Has(d, k) /\ d[k] # <<>>
            IN  /\ resp'.status = 201 =>
                     /\ resp'.user_id \in Nat \ {0}
                     /\ \E u \in users' \ users :
                          /\ users' = users \cup {u}
                          /\ u.id = resp'.user_id
                          /\ u.role = "user"
                /\ resp'.status # 201 => users' = users
                /\ (/\ complete
                    /\ validate_email(Lower(Strip(d["email"])))
                    /\ validate_password(d["password"])[1])
                     => resp'.status =
                          IF \E v \in users : \/ v.username = Strip(d["username"])
                                              \/ v.email = Lower(Strip(d["email"]))
                            THEN 409 ELSE 201]_vars

\* C6 witness: a registration is refused with 409 because of a user that an
\* earlier registration has created.
C6_Witness ==
    /\ resp.op = "register"
    /\ resp.status = 409
    /\ \E u \in users \ {AdminRow, EarlierUserRow} :
           \/ u.username = Strip(resp.data["username"])
           \/ u.email = Lower(Strip(resp.data["email"]))

\* C7: ratings holds at most one row per (user, movie), and the row holds the
\* value of the last successful write (rating submission or profile batch) of
\* that user for that movie.
C7_OneRatingPerPair ==
    /\ \A r, q \in ratings : (r.user_id = q.user_id /\ r.movie_id = q.movie_id) => r = q
    /\ \A r \in ratings :
          /\ <<r.user_id, r.movie_id>> \in DOMAIN lastRated
          /\ r.rating = lastRated[<<r.user_id, r.movie_id>>]

\* C7 witness: a submission has met the row of an earlier one (the id it
\* returns is older than the sequence) and the table holds that single row.
C7_Witness ==
    /\ resp.op = "submit_rating"
    /\ resp.status = 201
    /\ resp.rating_id < ratingSeq
    /\ Cardinality(ratings) = 1

\* C8: a rating submission of an authenticated caller whose body has no rating
\* or a rating outside 0..10 is answered 400 and leaves ratings as it is; every
\* row a submission writes holds a rating in 0..10.
C8_RangeChecked ==
    [][resp'.op = "submit_rating" =>
        /\ (/\ resp'.status # 401
            /\ \/ ~Has(resp'.data, "rating")
               \/ resp'.data["rating"] < Pts(0)
               \/ resp'.data["rating"] > Pts(10))
              => (resp'.status = 400 /\ ratings' = ratings)
        /\ \A r \in ratings' \ ratings : Pts(0) <= r.rating /\ r.rating <= Pts(10)]_vars

\* C8 witness: a rating below 0 is refused while the caller's earlier rating is
\* in the table.
C8_Witness ==
    /\ resp.op = "submit_rating"
    /\ resp.status = 400
    /\ Has(resp.data, "rating")
    /\ resp.data["rating"] < 0
    /\ \E r \in ratings : r.user_id = resp.user_id /\ r.movie_id = resp.movie_id

\* C9: a movie deletion with the token of an admin session is answered 200
\* when the movie exists and 404 when it does not; after a 200 no row of
\* movies, movie_genres or ratings carries the movie's id.
C9_DeleteCascades ==
    [][(/\ resp'.op = "delete_movie"
        /\ StripBearer(resp'.header) \in DOMAIN active_tokens
        /\ active_tokens[StripBearer(resp'.header)].role = "admin")
        => /\ resp'.status = IF resp'.movie_id \in DOMAIN movies THEN 200 ELSE 404
           /\ resp'.status = 200 =>
                /\ resp'.movie_id \notin DOMAIN movies'
                /\ \A l \in movie_genres' : l[1] # resp'.movie_id
                /\ \A r \in ratings' : r.movie_id # resp'.movie_id]_vars

\* C9 witness: an admin has deleted a movie that had genre links and a rating.
C9_Witness ==
    /\ resp.op = "delete_movie"
    /\ resp.status = 200
    /\ \E l \in LoadedMovieGenres : l[1] = resp.movie_id
    /\ \E k \in DOMAIN lastRated : k[2] = resp.movie_id

\* C10: when the only rating of a movie is the 8 of a user who registered
\* through the API, the movie's statistics show the average 8.0 and the count 1
\* in the bucket of 8; when the movie has no rating the average is null.
C10_EndToEnd ==
    (resp.op = "get_movie_ratings" /\ resp.status = 200) =>
        LET rows == {r \in ratings : r.movie_id = resp.movie_id}
        IN  /\ (\E r \in rows : /\ rows = {r}
                                /\ r.rating = Pts(8)
                                /\ r.user_id \notin {AdminRow.id, EarlierUserRow.id})
                 => /\ resp.average_rating = <<Pts(8), 1>>
                    /\ 8 \in DOMAIN resp.rating_counts
                    /\ resp.rating_counts[8] = 1
            /\ rows = {} => resp.average_rating = <<>>

\* C11: the statistics of a movie show a null average exactly when the movie
\* has no rating, and then the five buckets are 0; when it has ratings, bucket
\* k counts the ratings that round to k and the average is the mean of all the
\* movie's ratings, whatever page and limit the request gives.
C11_RatingStatistics ==
    resp.op = "get_movie_ratings" =>
        LET rows == {r \in ratings : r.movie_id = resp.movie_id}
        IN  /\ (resp.average_rating = <<>>) <=> (rows = {})
            /\ rows = {} => \A k \in 1..5 : resp.rating_counts[k] = 0
            /\ rows # {} =>
                 /\ \A k \in 1..5 :
                      resp.rating_counts[k] = Cardinality({r \in rows : Round(r.rating) = k})
                 /\ resp.average_rating = <<SumRatings(rows), Cardinality(rows)>>

\* C12: the list request answers, for every page and limit, with total_pages
\* the ceiling of total / limit: the least number of pages of limit rows that
\* hold total rows.
C12_TotalPages ==
    resp.op = "get_movies" =>
        /\ resp.status = 200
        /\ resp.total_pages * resp.limit >= resp.total
        /\ (resp.total_pages - 1) * resp.limit < resp.total

C14_MyMoviesAreTheRated ==
    [][(resp'.op = "get_my_movies" /\ resp'.status = 200) =>
        LET rated == {m \in DOMAIN movies :
                        \E r \in ratings : r.user_id = resp'.user_id /\ r.movie_id = m}
            listed == {resp'.movies[i].id : i \in DOMAIN resp'.movies}
        IN  /\ listed \subseteq rated
            /\ (/\ resp'.genre = NoGenre
                /\ resp'.page = 1
                /\ Len(resp'.movies) < resp'.limit)
                 => /\ listed = rated
                    /\ resp'.total = Cardinality(listed)]_vars

\* C15: a search with no genre filter whose q is the title of a movie that was
\* inserted through the API (and is still in the table under that title) is
\* answered 200 with that movie, under its id, among the rows; an
\* administrator's insert request without a title is answered 400 and inserts
\* nothing.
C15_InsertedMovieIsFound ==
    [][/\ (resp'.op = "search_movies" /\ resp'.genre = NoGenre) =>
            \A m \in DOMAIN movies \ LoadedMovieIds :
                movies[m].title = resp'.query =>
                    /\ resp'.status = 200
                    /\ \E i \in DOMAIN resp'.movies : resp'.movies[i].id = m
       /\ (/\ resp'.op = "insert_movie"
           /\ resp'.user_role = "admin"
           /\ ~Has(resp'.data, "title"))
            => (resp'.status = 400 /\ movies' = movies /\ movieSeq' = movieSeq)]_vars

\* C16: a movie update by an administrator that is answered 200 sets, on the
\* addressed movie, the columns that are keys of the body and of the
\* allow-list to the body's values, leaves its other columns (raw_genres among
\* them), the set of ids and every other movie as they are, and lists exactly
\* those keys in updated_fields; with no allow-listed key in the body the
\* answer is 400, and any answer other than 200 leaves movies as it is.
C16_UpdateTouchesAllowedOnly ==
    [][(resp'.op = "update_movie" /\ resp'.user_role = "admin") =>
        LET d == resp'.data
            keys == DOMAIN d \cap allowed_fields
            id == resp'.movie_id
        IN  /\ keys = {} => resp'.status = 400
            /\ resp'.status # 200 => movies' = movies
            /\ resp'.status = 200 =>
                 /\ id \in DOMAIN movies
                 /\ DOMAIN movies' = DOMAIN movies
                 /\ resp'.updated_fields = keys
                 /\ \A m \in DOMAIN movies :
                      /\ DOMAIN movies'[m] = DOMAIN movies[m]
                      /\ movies'[m].raw_genres = movies[m].raw_genres
                      /\ \A c \in DOMAIN movies[m] :
                           movies'[m][c] = IF m = id /\ c \in keys THEN d[c] ELSE movies[m][c]
            /\ UNCHANGED <<movie_genres, ratings, users, movieSeq>>]_vars

\* C16 witness: an update with an allowed and a forbidden key has changed the
\* popularity of a movie.
C16_Witness ==
    /\ resp.op = "update_movie"
    /\ resp.status = 200
    /\ Has(resp.data, "raw_genres")
    /\ resp.updated_fields = {"popularity"}
    /\ movies[resp.movie_id].popularity = resp.data["popularity"]

C18_RecommendationsShareGenre ==
    [][(resp'.op = "get_home_recommendations" /\ resp'.status = 200) =>
        LET recs == resp'.recommended
            mine == {r \in ratings : r.user_id = resp'.user_id}
        IN  /\ resp'.user_id = active_tokens[StripBearer(resp'.header)].id
            /\ Len(recs) <= 20
            /\ \A i, j \in DOMAIN recs : i # j => recs[i].id # recs[j].id
            /\ \A i \in DOMAIN recs :
                 /\ recs[i].id \in DOMAIN movies
                 /\ \A r \in mine : r.movie_id # recs[i].id
                 /\ \E r \in mine, g \in DOMAIN Genres :
                      <<recs[i].id, g>> \in movie_genres /\ <<r.movie_id, g>> \in movie_genres]_vars

\* C18 witness: a full list of 20 recommendations while one more unrated movie
\* of a rated genre exists.
C18_Witness ==
    /\ resp.op = "get_home_recommendations"
    /\ resp.status = 200
    /\ Len(resp.recommended) = 20
    /\ \E m \in DOMAIN movies :
         /\ \A i \in DOMAIN resp.recommended : resp.recommended[i].id # m
         /\ \A r \in ratings : r.user_id = resp.user_id => r.movie_id # m
         /\ \E r \in ratings, g \in DOMAIN Genres :
              r.user_id = resp.user_id /\ <<m, g>> \in movie_genres
                                       /\ <<r.movie_id, g>> \in movie_genres

\* C19: a recommendations request that carries no token is answered with a
\* success status and without a recommended list.
C19_FeedForAnonymous ==
    (resp.op = "get_home_recommendations" /\ resp.header = NoHeader) =>
        (resp.status = 200 /\ resp.recommended = <<>>)

\* C20: the home page is answered 200 with the 20 most popular movies, most
\* popular first, and the 20 movies of latest release date among those that
\* have one, latest first (all of them when there are fewer), whatever the
\* Authorization header is, and the session map stays as it is.
C20_HomeIgnoresAuthentication ==
    [][resp'.op = "get_home" =>
        LET popular == resp'.popular
            recent == resp'.recent
            dated == {m \in DOMAIN movies : movies[m].release_date # <<>>}
            Min(a, b) == IF a < b THEN a ELSE b
        IN  /\ resp'.status = 200
            /\ UNCHANGED <<active_tokens, issued, revoked>>
            /\ Len(popular) = Min(20, Cardinality(DOMAIN movies))
            /\ \A i, j \in DOMAIN popular :
                 i < j => /\ popular[i].id # popular[j].id
                          /\ movies[popular[i].id].popularity >= movies[popular[j].id].popularity
            /\ \A i \in DOMAIN popular, m \in DOMAIN movies :
                 (\A j \in DOMAIN popular : popular[j].id # m)
                    => movies[m].popularity <= movies[popular[i].id].popularity
            /\ Len(recent) = Min(20, Cardinality(dated))
            /\ \A i, j \in DOMAIN recent :
                 i < j => /\ recent[i].id # recent[j].id
                          /\ movies[recent[i].id].release_date[1]
                               >= movies[recent[j].id].release_date[1]
            /\ \A i \in DOMAIN recent :
                 /\ recent[i].id \in dated
                 /\ \A m \in dated :
                      (\A j \in DOMAIN recent : recent[j].id # m)
                         => movies[m].release_date[1] <= movies[recent[i].id].release_date[1]]_vars

\* C20 witness: a caller with a forged token gets two full lists while a
\* session exists.
C20_Witness ==
    /\ resp.op = "get_home"
    /\ resp.header = [bearer |-> 1, tok |-> "forged"]
    /\ Len(resp.popular) = 20
    /\ Len(resp.recent) = 20
    /\ DOMAIN active_tokens # {}

\* C21: validate_password answers valid exactly when the password has at least
\* 8 characters, a lower-case letter, an upper-case letter and a character of
\* the special set; otherwise its reason is that of the first of these four
\* tests, in this order, that fails.  "short" is too short, "alllower1!" has
\* no upper-case letter, "GoodPass1!" is valid.
C21_FirstFailingReason ==
    resp.op = "validate_password" =>
        LET p == resp.password
            long == Len(p) >= 8
            lower == \E i \in DOMAIN p : p[i] \in LowerLetters
            upper == \E i \in DOMAIN p : p[i] \in UpperLetters
            special == \E i \in DOMAIN p : p[i] \in SpecialChars
        IN  /\ resp.is_valid <=> (long /\ lower /\ upper /\ special)
            /\ ~long => resp.error_msg = "Password must be at least 8 characters long"
            /\ (long /\ ~lower) =>
                 resp.error_msg = "Password must contain at least one lowercase letter"
            /\ (long /\ lower /\ ~upper) =>
                 resp.error_msg = "Password must contain at least one uppercase letter"
            /\ (long /\ lower /\ upper /\ ~special) =>
                 resp.error_msg = "Password must contain at least one special character"
            /\ p = <<"s", "h", "o", "r", "t">> =>
                 resp.error_msg = "Password must be at least 8 characters long"
            /\ p = <<"a", "l", "l", "l", "o", "w", "e", "r", "1", "!">> =>
                 resp.error_msg = "Password must contain at least one uppercase letter"
            /\ p = T_GoodPass => resp.is_valid

\* C21 witness: a password of 8 characters with neither a lower-case nor an
\* upper-case letter is refused for the lower-case letter.
C21_Witness ==
    /\ resp.op = "validate_password"
    /\ Len(resp.password) = 8
    /\ \A i \in DOMAIN resp.password : resp.password[i] \notin LowerLetters \cup UpperLetters
    /\ ~resp.is_valid
    /\ resp.error_msg = "Password must contain at least one lowercase letter"

\* C22: the total of a catalog page is the number of movies the main query
\* lists under the same genre filter, that is, of the movies that have a row
\* of movie_genres (of the genre asked for, when one is).
C22_TotalCountsTheListed ==
    [][(resp'.op = "get_movies" /\ resp'.status = 200) =>
        resp'.total = Cardinality({m \in DOMAIN movies :
                          \E l \in movie_genres :
                              /\ l[1] = m
                              /\ GenreFilter(resp'.genre) => Genres[l[2]] = resp'.genre})]_vars

\* C23: the ORDER BY clause of the catalog list, of the search and of the
\* caller's own list is one of the seven pairs of the whitelist whatever the
\* sort parameter is, and it is popularity descending when the sort parameter
\* is absent or is none of the seven names.
C23_SortWhitelist ==
    (resp.op \in {"get_movies", "search_movies", "get_my_movies"} /\ resp.status = 200) =>
        /\ resp.order_by \in
             {[col |-> "title", desc |-> FALSE], [col |-> "title", desc |-> TRUE],
              [col |-> "vote_average", desc |-> TRUE], [col |-> "vote_average", desc |-> FALSE],
              [col |-> "release_date", desc |-> TRUE], [col |-> "release_date", desc |-> FALSE],
              [col |-> "popularity", desc |-> TRUE]}
        /\ resp.sort \notin {"title_asc", "title_desc", "rating_desc", "rating_asc",
                             "date_new", "date_old", "popularity"}
             => resp.order_by = [col |-> "popularity", desc |-> TRUE]

\* C24: under a genre filter other than "all", a page of the catalog list, of
\* the search or of the caller's own list has each movie in one row only, and
\* the row carries every genre the movie is linked to.
C24_AllGenresPerRow ==
    [][(/\ resp'.op \in {"get_movies", "search_movies", "get_my_movies"}
        /\ resp'.status = 200
        /\ GenreFilter(resp'.genre)) =>
        LET rows == resp'.movies
            names(i) == IF resp'.op = "search_movies" THEN rows[i].debug_genres
                        ELSE rows[i].genres
        IN  /\ \A i, j \in DOMAIN rows : i # j => rows[i].id # rows[j].id
            /\ \A i \in DOMAIN rows :
                 names(i) = {Genres[g] : g \in {x \in DOMAIN Genres :
                                                  <<rows[i].id, x>> \in movie_genres}}]_vars

\* C25: a PUT /api/profile that ends with 400, 404 or 409 leaves the users
\* table and the ratings table as they were before the request, whatever
\* statements it had run before it failed.
C25_FailedUpdateRollsBack ==
    [][(resp'.op = "update_profile" /\ resp'.status \in {400, 404, 409}) =>
        (users' = users /\ ratings' = ratings)]_vars

\* C25 witness: a 400 for the second rating of a batch, after the UPDATE of the
\* username and the first rating of the batch had run.
C25_Witness ==
    /\ resp.op = "update_profile"
    /\ resp.status = 400
    /\ Has(resp.data, "username")
    /\ Has(resp.data, "recent_ratings")
    /\ \E u \in users : u.id = resp.user_id /\ u.username # resp.data["username"]
    /\ Len(resp.data["recent_ratings"]) = 2
    /\ RatingInRange(resp.data["recent_ratings"][1]["rating"])
    /\ ~RatingInRange(resp.data["recent_ratings"][2]["rating"])
    /\ \A r \in ratings : ~(r.user_id = resp.user_id
                            /\ r.movie_id = resp.data["recent_ratings"][1]["movie_id"])

\* C26: a register, rating submission, movie insert, movie update or profile
\* update that is answered with 400 has run no database statement.
C26_ValidationBeforeDatabase ==
    (/\ resp.op \in {"register", "submit_rating", "insert_movie", "update_movie",
                     "update_profile"}
     /\ resp.status = 400) => resp.statements = 0

\* C27: when logins and logouts that concern different tokens are served at the
\* same time, whatever the order of their steps, each gets the response it
\* would get alone (a logout 200 if its token was in the map and 401 if not, a
\* login 200 with a new token if its credentials match and 401 if not), and
\* the session map at the end is the map at the start without the tokens
\* logged out and with the tokens of the logins.
C27_DifferentTokensIndependent ==
    (/\ \A i \in ThreadIds : threads[i].pc = "done" /\ threads[i].op \in {"login", "logout"}
     /\ \A i, j \in ThreadIds :
          (i # j /\ threads[i].op = "logout" /\ threads[j].op = "logout") =>
              \/ threads[i].header = NoHeader
              \/ StripBearer(threads[i].header) # StripBearer(threads[j].header)) =>
        LET before == threads[1].before
            Known(i) == /\ threads[i].header # NoHeader
                        /\ StripBearer(threads[i].header) \in DOMAIN before
            Matches(i) == \E u \in users :
                              /\ u.username = threads[i].data["username"]
                              /\ u.password_hash = hash_password(threads[i].data["password"])
            logouts == {i \in ThreadIds : threads[i].op = "logout"}
            logins == {i \in ThreadIds : threads[i].op = "login"}
            removed == {StripBearer(threads[i].header) : i \in {k \in logouts : Known(k)}}
            added == {threads[i].token : i \in {k \in logins : Matches(k)}}
        IN  /\ \A i \in logouts : threads[i].status = IF Known(i) THEN 200 ELSE 401
            /\ \A i \in logins :
                 IF Matches(i)
                 THEN /\ threads[i].status = 200
                      /\ threads[i].token \notin DOMAIN before
                      /\ \A j \in logins \ {i} : threads[j].token # threads[i].token
                      /\ threads[i].token \in DOMAIN active_tokens
                      /\ \E u \in users :
                           /\ u.username = threads[i].data["username"]
                           /\ active_tokens[threads[i].token] = [id |-> u.id, role |-> u.role]
                 ELSE threads[i].status = 401
            /\ DOMAIN active_tokens = (DOMAIN before \ removed) \cup added
            /\ \A t \in DOMAIN before \ removed : active_tokens[t] = before[t]

\* C27 witness: a logout of a token of the map and a login with good
\* credentials have been served at the same time, both with success.
C27_Witness ==
    /\ \A i \in ThreadIds : threads[i].pc = "done" /\ threads[i].status = 200
    /\ \E i, j \in ThreadIds : threads[i].op = "logout" /\ threads[j].op = "login"

\* C28: when a logout of a token of the session map is served at the same time
\* as another request that presents the same token, each of the two is either
\* served for the user the token was issued to (200) or refused (401), and the
\* token is out of the map once the logout is done.
C28_LogoutRaceTwoOutcomes ==
    \A i, j \in ThreadIds :
        (/\ i # j
         /\ threads[i].op = "logout"
         /\ threads[j].op \in {"logout", "get_profile"}
         /\ threads[i].header # NoHeader
         /\ StripBearer(threads[i].header) = StripBearer(threads[j].header)
         /\ StripBearer(threads[i].header) \in DOMAIN threads[i].before) =>
            /\ \A k \in {i, j} :
                 threads[k].pc = "done" =>
                    /\ threads[k].status \in {200, 401}
                    /\ threads[k].status = 200 =>
                         threads[k].info = issued[StripBearer(threads[i].header)]
            /\ threads[i].pc = "done" =>
                 StripBearer(threads[i].header) \notin DOMAIN active_tokens

\* C29: no request creates or promotes an administrator.  After every step
\* the administrators are the seeded ones, every row added by a registration
\* has the role "user", no row's role differs from the role it had before
\* the step, and every entry of the session map holds the role of its user.
C29_AdminsAreTheSeeded ==
    [][/\ {u.id : u \in {v \in users' : v.role = "admin"}} = {AdminRow.id}
       /\ \A v \in users' : (\A u \in users : u.id # v.id) => v.role = "user"
       /\ \A u \in users : \A v \in users' : u.id = v.id => v.role = u.role
       /\ \A t \in DOMAIN active_tokens' :
            \E u \in users' : /\ u.id = active_tokens'[t].id
                              /\ u.role = active_tokens'[t].role]_vars

\* C29 witness: a user registered through the API with a body that asks for
\* the role "admin" has logged in and changed their profile with such a body.
C29_Witness ==
    /\ resp.op = "update_profile"
    /\ resp.status = 200
    /\ Has(resp.data, "role")
    /\ Has(resp.data, "username")
    /\ resp.user_id > EarlierUserRow.id

\* C30: after every step each rating row refers to a movie that has a row in
\* movies, and a DELETE of a movie id that is answered 404 leaves every table
\* as it was.
C30_RatingsReferToMovies ==
    [][/\ \A r \in ratings' : r.movie_id \in DOMAIN movies'
       /\ (resp'.op = "delete_movie" /\ resp'.status = 404) =>
             UNCHANGED <<users, movies, movie_genres, ratings>>]_vars

=============================================================================
